---------------------------- MODULE Spec2Model ----------------------------
(***************************************************************************)
(* State-machine model of the XELIS hardware-wallet application:           *)
(* the frame loop of main.rs, the session handlers of                      *)
(* handlers/sign_tx/mod.rs, the preview TLV parser of xlb.rs, the          *)
(* streaming body parser of handlers/sign_tx/tx_parser.rs and the          *)
(* commitment verifier of crypto/commitment.rs.                            *)
(*                                                                         *)
(* Bytes are naturals 0..255 and buffers are sequences of bytes.  A u64 is *)
(* kept as its eight big-endian digits, so that from_le_bytes and          *)
(* from_be_bytes are distinct conversions and no value leaves TLC's        *)
(* integer range.  One step of the model is one iteration of the loop in   *)
(* sample_main: a frame is received, its handler runs, and                 *)
(* show_status_and_home_if_needed decides whether the session is reset.    *)
(***************************************************************************)
EXTENDS Integers, Sequences, FiniteSets, TLC

VARIABLES
    ctx,     \* TxContext (handlers/sign_tx/mod.rs:46)
    ws,      \* MEMO_WS, the process-wide preview workspace (xlb.rs:44)
    frame,   \* the frame being answered: header fields and payload (Comm)
    resp,    \* the reply to that frame: status word, payload, what the user did
    shown,   \* history: the preview the user approved on screen since the last reset
    att,     \* history: preview and blinders as they were when SignTx(0) was accepted
    host     \* environment: the body the host is streaming and how much of it was sent

vars == <<ctx, ws, frame, resp, shown, att, host>>

---------------------------------------------------------------------------
(* Bounds of the model *)

\* LoadMemo chunks the host sends for one preview buffer
MaxMemoChunks == 2
\* body chunks the host sends after one SignTx(0)
MaxBodyChunks == 3
\* blinders the host lets accumulate in the verifier
MaxBlinders == 1
\* SignTx(chunk=0) frames the host sends in one run
MaxStarts == 1
\* chunks of one kind the host sends in a long session
MaxLong == 258
\* pieces the host sends for one preview
MaxPieces == 3
\* bytes of the longest varint the host sends
MaxVarint == 11

---------------------------------------------------------------------------
(* Program constants *)

MAX_TRANSACTION_LEN == 1048576
MAX_CHUNKS == 4500
MAX_MEMO_SIZE == 3 * 1024 + 512

TAG_TX_TYPE == 1
TAG_FEE == 2
TAG_NONCE == 3
TAG_ASSET_TABLE == 4
TAG_OUT_COUNT == 16
TAG_OUT_ITEM == 32
TAG_BURN == 48

TX_BURN == 0
TX_TRANSFER == 1
TX_MULTISIG == 2

P2_CHUNK_LAST == 0
P2_MORE_DATA == 128
BURN_PAYLOAD_SIZE == 40

---------------------------------------------------------------------------
(* Byte helpers *)

Min(a, b) == IF a < b THEN a ELSE b

\* n copies of byte b
Rep(b, n) == [i \in 1..n |-> b]

\* s[a..b) with Rust's 0-based, half-open indices
Slice(s, a, b) == SubSeq(s, a + 1, b)

\* [u8]::reverse
Reverse(s) == [i \in 1..Len(s) |-> s[Len(s) + 1 - i]]

\* u64::from_le_bytes and u64::from_be_bytes; a u64 is its 8 big-endian digits
U64FromLe(b) == Reverse(b)
U64FromBe(b) == b
U64Zero == Rep(0, 8)
\* the u64 of a small natural
U64(n) == Rep(0, 6) \o <<n \div 256, n % 256>>

\* values too large for the model's integers are kept as this marker
UsizeBig == 2 ^ 30

\* dst[at..at+len(src)) = src   (copy_from_slice into a fixed array)
WriteAt(dst, at, src) ==
    [i \in 1..Len(dst) |->
        IF i > at /\ i <= at + Len(src) THEN src[i - at] ELSE dst[i]]

---------------------------------------------------------------------------
(* Preview TLV parser, xlb.rs *)

WsEmpty == [asset_table |-> <<>>, outs |-> <<>>, burn |-> <<>>]

\* MemoWorkspace::clear
MemoWorkspace_clear(w) == WsEmpty

ErrLeb == [ok |-> FALSE, val |-> 0, off |-> 0]

\* the loop of read_leb128: val |= (b & 0x7F) << shift, at most ten bytes
RECURSIVE read_leb128_loop(_, _, _, _)
read_leb128_loop(buf, off, val, shift) ==
    IF off >= Len(buf) THEN ErrLeb
    ELSE LET b == buf[off + 1]
             g == IF shift = 63 THEN (b % 128) % 2 ELSE b % 128
             v == IF val = UsizeBig THEN UsizeBig
                  ELSE IF shift < 28 THEN val + g * (2 ^ shift)
                  ELSE IF g = 0 THEN val ELSE UsizeBig
         IN  IF b < 128 THEN [ok |-> TRUE, val |-> v, off |-> off + 1]
             ELSE IF shift + 7 >= 64 THEN ErrLeb
             ELSE read_leb128_loop(buf, off + 1, v, shift + 7)

read_leb128(buf, off) == read_leb128_loop(buf, off, 0, 0)

\* the state of one parse_memo_tlv call: its locals and the workspace it fills
TlvStart ==
    [tx_type |-> 0, fee |-> U64Zero, nonce |-> U64Zero, expected_outs |-> -1,
     ws |-> WsEmpty]

TlvErr(sw, st) == [ok |-> FALSE, sw |-> sw, st |-> st]
TlvOk(st) == [ok |-> TRUE, sw |-> "Ok", st |-> st]

\* a variant of the index validation that accepts every index
BadAssetIndex_never(idx, w) == FALSE

\* asset_index > 0 && asset_index > asset_table.len()
BadAssetIndex(idx, w) == idx > 0 /\ idx > Len(w.asset_table)

\* TAG_ASSET_TABLE: count(varint) | count * asset(32)
RECURSIVE push_assets(_, _, _, _)
push_assets(table, val, p, n) ==
    IF n = 0 THEN table
    ELSE push_assets(Append(table, Slice(val, p, p + 32)), val, p + 32, n - 1)

tlv_asset_table(val, st) ==
    LET c == read_leb128(val, 0) IN
    IF ~c.ok THEN TlvErr("TxParsingFail", st)
    ELSE IF c.val = UsizeBig \/ c.off + c.val * 32 > Len(val)
    THEN TlvErr("MemoInvalid", st)
    ELSE LET t  == push_assets(st.ws.asset_table, val, c.off, c.val)
             s2 == [st EXCEPT !.ws.asset_table = t]
         IN  IF Len(t) > 255 THEN TlvErr("MemoInvalid", s2) ELSE TlvOk(s2)

\* TAG_OUT_ITEM: asset_index(1) | dest(32) | amount(8 LE) | extra_len | preview_len | preview
tlv_out_item(val, st) ==
    IF Len(val) < 1 + 32 + 8 THEN TlvErr("MemoInvalid", st)
    ELSE IF BadAssetIndex(val[1], st.ws) THEN TlvErr("MemoInvalid", st)
    ELSE LET e == read_leb128(val, 41) IN
         IF ~e.ok THEN TlvErr("TxParsingFail", st)
         ELSE LET pl == read_leb128(val, e.off) IN
              IF ~pl.ok THEN TlvErr("TxParsingFail", st)
              ELSE IF pl.val = UsizeBig \/ pl.off + pl.val > Len(val)
              THEN TlvErr("MemoInvalid", st)
              ELSE TlvOk([st EXCEPT !.ws.outs = Append(@,
                      [asset_index |-> val[1],
                       dest        |-> Slice(val, 1, 33),
                       amount      |-> U64FromLe(Slice(val, 33, 41)),
                       extra_len   |-> e.val,
                       preview     |-> Slice(val, pl.off, pl.off + pl.val)])])

\* TAG_BURN: asset_index(1) | amount(8 LE) | preview_len | preview
tlv_burn(val, st) ==
    IF Len(val) < 1 + 8 THEN TlvErr("MemoInvalid", st)
    ELSE IF BadAssetIndex(val[1], st.ws) THEN TlvErr("MemoInvalid", st)
    ELSE LET pl == read_leb128(val, 9) IN
         IF ~pl.ok THEN TlvErr("TxParsingFail", st)
         ELSE IF pl.val = UsizeBig \/ pl.off + pl.val > Len(val)
         THEN TlvErr("MemoInvalid", st)
         ELSE TlvOk([st EXCEPT !.ws.burn =
                 <<[asset_index |-> val[1], amount |-> U64FromLe(Slice(val, 1, 9))]>>])

\* a variant of the match that refuses a tag it does not know
tlv_record_strict(tag, val, st) ==
    IF tag \in {TAG_TX_TYPE, TAG_FEE, TAG_NONCE} THEN
        IF Len(val) # (IF tag = TAG_TX_TYPE THEN 1 ELSE 8) THEN TlvErr("MemoInvalid", st)
        ELSE IF tag = TAG_TX_TYPE THEN TlvOk([st EXCEPT !.tx_type = val[1]])
        ELSE IF tag = TAG_FEE THEN TlvOk([st EXCEPT !.fee = U64FromLe(val)])
        ELSE TlvOk([st EXCEPT !.nonce = U64FromLe(val)])
    ELSE IF tag = TAG_ASSET_TABLE THEN tlv_asset_table(val, st)
    ELSE IF tag = TAG_OUT_ITEM THEN tlv_out_item(val, st)
    ELSE IF tag = TAG_BURN THEN tlv_burn(val, st)
    ELSE TlvErr("MemoInvalid", st)

\* the match on the tag of one length-prefixed record
tlv_record(tag, val, st) ==
    IF tag = TAG_TX_TYPE THEN
        IF Len(val) # 1 THEN TlvErr("MemoInvalid", st)
        ELSE TlvOk([st EXCEPT !.tx_type = val[1]])
    ELSE IF tag = TAG_FEE THEN
        IF Len(val) # 8 THEN TlvErr("MemoInvalid", st)
        ELSE TlvOk([st EXCEPT !.fee = U64FromLe(val)])
    ELSE IF tag = TAG_NONCE THEN
        IF Len(val) # 8 THEN TlvErr("MemoInvalid", st)
        ELSE TlvOk([st EXCEPT !.nonce = U64FromLe(val)])
    ELSE IF tag = TAG_ASSET_TABLE THEN tlv_asset_table(val, st)
    ELSE IF tag = TAG_OUT_ITEM THEN tlv_out_item(val, st)
    ELSE IF tag = TAG_BURN THEN tlv_burn(val, st)
    ELSE TlvOk(st)

\* a variant of lines 257-261 that never compares the counts
out_count_unchecked(st) == TlvOk(st)

\* parse_memo_tlv, lines 257-261: a declared OUT_COUNT must equal the number of
\* outputs collected
out_count_check(st) ==
    IF st.expected_outs # -1 /\ Len(st.ws.outs) # st.expected_outs
    THEN TlvErr("MemoInvalid", st) ELSE TlvOk(st)

RECURSIVE parse_memo_loop(_, _, _)

\* parse_memo_tlv after the match on one record (result r): the record's error
\* leaves the function, else the loop goes on behind the record
parse_memo_next(r, memo, off) ==
    IF ~r.ok THEN r ELSE parse_memo_loop(memo, off, r.st)

\* the while loop of parse_memo_tlv and the OUT_COUNT check that follows it
parse_memo_loop(memo, off, st) ==
    IF off >= Len(memo) THEN out_count_check(st)
    ELSE LET tag == memo[off + 1] IN
         IF tag = TAG_OUT_COUNT THEN
             LET n == read_leb128(memo, off + 1) IN
             IF ~n.ok THEN TlvErr("TxParsingFail", st)
             ELSE parse_memo_loop(memo, n.off, [st EXCEPT !.expected_outs = n.val])
         ELSE LET l == read_leb128(memo, off + 1) IN
              IF ~l.ok THEN TlvErr("TxParsingFail", st)
              ELSE IF l.val = UsizeBig \/ l.off + l.val > Len(memo)
              THEN TlvErr("TxParsingFail", st)
              ELSE parse_memo_next(tlv_record(tag, Slice(memo, l.off, l.off + l.val), st),
                                   memo, l.off + l.val)

\* what parse_memo_tlv returns for the final state r of its loop: ok, sw, the
\* MemoPreview and the workspace contents afterwards
parse_memo_result(r) ==
    [ok |-> r.ok, sw |-> r.sw,
     preview |-> [tx_type |-> r.st.tx_type, fee |-> r.st.fee, nonce |-> r.st.nonce],
     ws |-> r.st.ws]

\* parse_memo_tlv: clears the workspace, then fills it record by record.  The
\* workspace keeps what was filled in when the parse fails part-way.
parse_memo_tlv(memo) == parse_memo_result(parse_memo_loop(memo, 0, TlvStart))

---------------------------------------------------------------------------
(* Streaming body parser, handlers/sign_tx/tx_parser.rs *)

PtNone == [k |-> "None", n |-> 0]
PtExtraLength == [k |-> "ExtraLength", n |-> 0]
PtExtraData(n) == [k |-> "ExtraData", n |-> n]
PtCommitment == [k |-> "Commitment", n |-> 0]

\* TxStreamParser::new, and the state TxStreamParser::reset restores
TxStreamParser_new ==
    [bytes_seen |-> 0, tx_version |-> 0, source_pubkey |-> Rep(0, 32),
     in_transfers |-> FALSE, transfer_count |-> 0, transfers_parsed |-> 0,
     pending_tail_skip |-> 0, partial_buffer |-> Rep(0, 256), partial_len |-> 0,
     partial_type |-> PtNone, burn_parsed |-> FALSE]

\* results of the parser's methods: site names the return Err(..) that fired
PErr(sw, site, p) == [ok |-> FALSE, sw |-> sw, site |-> site, p |-> p, off |-> 0, c |-> <<>>]
POk(p, off) == [ok |-> TRUE, sw |-> "Ok", site |-> "", p |-> p, off |-> off, c |-> <<>>]
POkC(p, off, c) == [ok |-> TRUE, sw |-> "Ok", site |-> "", p |-> p, off |-> off, c |-> c]

\* parse_header, lines 111-123: the transfer count byte
header_count(p, data, off, w) ==
    IF p.bytes_seen = 34 /\ p.in_transfers /\ off < Len(data) THEN
        LET q == [p EXCEPT !.transfer_count = data[off + 1], !.bytes_seen = 35] IN
        IF q.transfer_count # Len(w.outs) % 256
        THEN PErr("TxParsingFail", "tx_parser.rs:118", q)
        ELSE POk(q, off + 1)
    ELSE POk(p, off)

\* parse_header, lines 83-109: the tx type byte, compared with the preview's
header_type(p, data, off, memo, w) ==
    IF p.bytes_seen = 33 /\ off < Len(data) THEN
        LET t == data[off + 1]
            q == [p EXCEPT !.bytes_seen = 34, !.in_transfers = (t = 1)]
        IN  IF t # memo.tx_type THEN PErr("TxParsingFail", "tx_parser.rs:91", q)
            ELSE IF t = TX_TRANSFER THEN header_count(q, data, off + 1, w)
            ELSE POk([q EXCEPT !.bytes_seen = 35], off + 1)
    ELSE header_count(p, data, off, w)

\* TxStreamParser::parse_header: version, source key, tx type, transfer count
parse_header(p, data, memo, w) ==
    LET o1 == IF p.bytes_seen = 0 /\ 0 < Len(data) THEN 1 ELSE 0
        p1 == IF o1 = 1 THEN [p EXCEPT !.tx_version = data[1], !.bytes_seen = 1] ELSE p
        inpk == p1.bytes_seen >= 1 /\ p1.bytes_seen < 33
        available == IF inpk THEN Min(Len(data) - o1, 33 - p1.bytes_seen) ELSE 0
        p2 == IF inpk
              THEN [p1 EXCEPT
                      !.source_pubkey = WriteAt(@, p1.bytes_seen - 1,
                                                Slice(data, o1, o1 + available)),
                      !.bytes_seen = @ + available]
              ELSE p1
    IN  header_type(p2, data, o1 + available, memo, w)

\* a variant of parse_burn that reads the amount little-endian
parse_burn_le(p, data, w) ==
    LET take == IF p.partial_len < BURN_PAYLOAD_SIZE
                THEN Min(BURN_PAYLOAD_SIZE - p.partial_len, Len(data)) ELSE 0
        p1 == [p EXCEPT !.partial_buffer = WriteAt(@, p.partial_len, Slice(data, 0, take)),
                        !.partial_len = @ + take]
    IN  IF p1.partial_len = BURN_PAYLOAD_SIZE THEN
            LET amount == U64FromLe(Slice(p1.partial_buffer, 32, 40)) IN
            IF w.burn = <<>> THEN PErr("TxParsingFail", "tx_parser.rs:148", p1)
            ELSE IF amount # w.burn[1].amount THEN PErr("TxParsingFail", "tx_parser.rs:145", p1)
            ELSE POk([p1 EXCEPT !.burn_parsed = TRUE, !.partial_len = 0], take)
        ELSE POk(p1, take)

\* TxStreamParser::parse_burn: accumulate asset(32) + amount(8), compare the amount
parse_burn(p, data, w) ==
    LET take == IF p.partial_len < BURN_PAYLOAD_SIZE
                THEN Min(BURN_PAYLOAD_SIZE - p.partial_len, Len(data)) ELSE 0
        p1 == [p EXCEPT !.partial_buffer = WriteAt(@, p.partial_len, Slice(data, 0, take)),
                        !.partial_len = @ + take]
    IN  IF p1.partial_len = BURN_PAYLOAD_SIZE THEN
            LET amount == U64FromBe(Slice(p1.partial_buffer, 32, 40)) IN
            IF w.burn = <<>> THEN PErr("TxParsingFail", "tx_parser.rs:148", p1)
            ELSE IF amount # w.burn[1].amount THEN PErr("TxParsingFail", "tx_parser.rs:145", p1)
            ELSE POk([p1 EXCEPT !.burn_parsed = TRUE, !.partial_len = 0], take)
        ELSE POk(p1, take)

\* read_varint: the value of a complete varint of at most nine bytes (usize)
RECURSIVE read_varint_loop(_, _, _, _)
read_varint_loop(data, consumed, value, shift) ==
    IF consumed >= Len(data) THEN [ok |-> FALSE, val |-> 0]
    ELSE IF consumed >= 9 THEN [ok |-> FALSE, val |-> 0]
    ELSE LET b == data[consumed + 1]
             g == b % 128
             v == IF value = UsizeBig THEN UsizeBig
                  ELSE IF shift < 28 THEN value + g * (2 ^ shift)
                  ELSE IF g = 0 THEN value ELSE UsizeBig
         IN  IF b < 128 THEN [ok |-> TRUE, val |-> v]
             ELSE read_varint_loop(data, consumed + 1, v, shift + 7)

read_varint(data) == read_varint_loop(data, 0, 0, 0)

\* a variant of transfer_tail_len_after_commit that counts the proof only
transfer_tail_len_proof_only(tx_version) == IF tx_version >= 1 THEN 160 ELSE 128

transfer_tail_len_after_commit(tx_version) ==
    32 + 32 + (IF tx_version >= 1 THEN 160 ELSE 128)

\* the for loop of the ExtraLength arm: one byte per iteration
RECURSIVE extra_length_loop(_, _, _)
extra_length_loop(p, data, i) ==
    IF i >= Len(data) THEN POk(p, i)
    ELSE IF p.partial_len >= 9 THEN PErr("TxParsingFail", "tx_parser.rs:217", p)
    ELSE LET q == [p EXCEPT !.partial_buffer = WriteAt(@, p.partial_len, <<data[i + 1]>>),
                            !.partial_len = @ + 1]
         IN  IF data[i + 1] < 128 THEN
                 LET r == read_varint(Slice(q.partial_buffer, 0, q.partial_len)) IN
                 IF ~r.ok THEN PErr("TxParsingFail", "tx_parser.rs:228", q)
                 ELSE POk([q EXCEPT !.partial_len = 0,
                                    !.partial_type = IF r.val > 0 THEN PtExtraData(r.val)
                                                     ELSE PtCommitment], i + 1)
             ELSE extra_length_loop(q, data, i + 1)

\* a - b on usize: below zero the subtraction panics when the build checks for
\* overflow and wraps around to a value above every length when it does not
sub_panics(a, b) == a < b /\ host.overflow_checks
usize_sub(a, b) == IF a < b THEN UsizeBig ELSE a - b

RECURSIVE extract_loop(_, _, _)

\* the loop condition of extract_commitment_from_transfer: offset < data.len()
extract_again(q, data, o) ==
    IF o >= Len(data) THEN POk(q, o) ELSE extract_loop(q, data, o)

\* the ExtraLength arm after its for loop (result r): an error or a varint still
\* incomplete leaves the function, a complete one goes round the loop
extract_after_length(r, data, off) ==
    IF ~r.ok THEN r
    ELSE IF r.off = off \/ r.p.partial_type.k = "ExtraLength" THEN r
    ELSE extract_again(r.p, data, r.off)

\* the main loop of extract_commitment_from_transfer; off counts the bytes consumed
extract_loop(p, data, off) ==
    LET rest == Len(data) - off
    IN
    IF p.partial_type.k = "None" THEN
        LET available == IF p.partial_len < 65 THEN Min(65 - p.partial_len, rest) ELSE 0
            q == [p EXCEPT !.partial_buffer = WriteAt(@, p.partial_len,
                                                      Slice(data, off, off + available)),
                           !.partial_len = @ + available]
        IN  IF q.partial_len < 65 THEN POk(q, off + available)
            ELSE extract_again([q EXCEPT !.partial_len = 0,
                                         !.partial_type = IF q.partial_buffer[65] = 1
                                                          THEN PtExtraLength ELSE PtCommitment],
                               data, off + available)
    ELSE IF p.partial_type.k = "ExtraLength" THEN
        extract_after_length(extra_length_loop(p, data, off), data, off)
    ELSE IF p.partial_type.k = "ExtraData" THEN
        LET available == Min(usize_sub(p.partial_type.n, p.partial_len), rest)
            q == [p EXCEPT !.partial_len = @ + available]
        IN  IF sub_panics(p.partial_type.n, p.partial_len)
            THEN PErr("Panic", "tx_parser.rs:250", p)
            ELSE IF q.partial_len >= p.partial_type.n
            THEN extract_again([q EXCEPT !.partial_type = PtCommitment, !.partial_len = 0],
                               data, off + available)
            ELSE POk(q, off + available)
    ELSE
        LET available == Min(usize_sub(32, p.partial_len), rest)
            q == [p EXCEPT !.partial_buffer = WriteAt(@, p.partial_len,
                                                      Slice(data, off, off + available)),
                           !.partial_len = @ + available]
            o == off + available
        IN  IF sub_panics(32, p.partial_len)
            THEN PErr("Panic", "tx_parser.rs:270", p)
            ELSE IF p.partial_len + available > Len(p.partial_buffer)
            THEN PErr("Panic", "tx_parser.rs:273", p)
            ELSE IF q.partial_len >= 32 THEN
                LET tail_len == transfer_tail_len_after_commit(q.tx_version)
                    skip_now == Min(tail_len, Len(data) - o)
                IN  POkC([q EXCEPT !.partial_type = PtNone, !.partial_len = 0,
                                   !.pending_tail_skip = tail_len - skip_now,
                                   !.transfers_parsed = @ + 1],
                         o + skip_now, Slice(q.partial_buffer, 0, 32))
            ELSE POk(q, o)

\* TxStreamParser::extract_commitment_from_transfer: off is the number of bytes
\* consumed, c the commitment when one was completed (else empty)
extract_commitment_from_transfer(p, data) ==
    IF p.pending_tail_skip > 0 THEN
        LET take == Min(p.pending_tail_skip, Len(data)) IN
        POk([p EXCEPT !.pending_tail_skip = @ - take], take)
    ELSE extract_loop(p, data, 0)

---------------------------------------------------------------------------
(* Commitment verifier, crypto/commitment.rs *)

\* compress(v*G + r*H).to_le_bytes() for amount v (u64) and blinder r (32 bytes,
\* big-endian).  The group is abstract: the encoding is binding, that is injective
\* in (v, r) for amounts and blinders below 65536.
PedersenCommit(amount, blinder) ==
    <<amount[8], amount[7], blinder[32], blinder[31]>> \o Rep(7, 28)

\* verify_pedersen_commitment
verify_pedersen_commitment(commitment, amount, blinder) ==
    IF PedersenCommit(amount, blinder) # commitment THEN "InvalidCommitment" ELSE "Ok"

\* CommitmentVerifier::new, and the state CommitmentVerifier::reset restores
CommitmentVerifier_new ==
    [blinders |-> <<>>, outputs_verified |-> <<>>, commitments_verified |-> 0]

init_blinders(v) == [v EXCEPT !.blinders = <<>>]
add_blinder(v, b) == [v EXCEPT !.blinders = Append(@, b)]

init_verification(v, output_count) ==
    [v EXCEPT !.outputs_verified = [i \in 1..output_count |-> FALSE],
              !.commitments_verified = 0]

\* CommitmentVerifier::verify_output; idx is 0-based
verify_output(v, idx, commitment, amount) ==
    IF idx >= Len(v.outputs_verified) \/ idx >= Len(v.blinders)
    THEN [ok |-> FALSE, sw |-> "TxParsingFail", site |-> "commitment.rs:102", v |-> v]
    ELSE IF verify_pedersen_commitment(commitment, amount, v.blinders[idx + 1]) # "Ok"
    THEN [ok |-> FALSE, sw |-> "InvalidCommitment", site |-> "commitment.rs:31", v |-> v]
    ELSE [ok |-> TRUE, sw |-> "Ok", site |-> "",
          v |-> [v EXCEPT !.outputs_verified[idx + 1] = TRUE,
                          !.commitments_verified = @ + 1]]

all_verified(v) == \A i \in 1..Len(v.outputs_verified) : v.outputs_verified[i]
verified_count(v) == v.commitments_verified

---------------------------------------------------------------------------
(* Addresses, crypto/address.rs and crypto/ristretto.rs *)

\* CompressedRistretto keeps the 32 bytes big-endian
CompressedRistretto_from_le_bytes(bytes) == Reverse(bytes)
CompressedRistretto_to_le_bytes(c) == Reverse(c)

\* "xel", "xet" and ':' as bytes
PREFIX_ADDRESS == <<120, 101, 108>>
TESTNET_PREFIX_ADDRESS == <<120, 101, 116>>
SEPARATOR == 58
\* b"qpzry9x8gf2tvdw0s3jn54khce6mua7l"
CHARSET == <<113, 112, 122, 114, 121, 57, 120, 56, 103, 102, 50, 116, 118, 100, 119, 48, 115, 51, 106, 110, 53, 52, 107, 104, 99, 101, 54, 109, 117, 97, 55, 108>>
MAX_ADDRESS_LEN == 72

\* a ^ b for a, b in 0..31
Xor5 ==
    [a \in 0..31 |-> [b \in 0..31 |->
        ((a + b) % 2) + 2 * (((a \div 2) + (b \div 2)) % 2)
        + 4 * (((a \div 4) + (b \div 4)) % 2) + 8 * (((a \div 8) + (b \div 8)) % 2)
        + 16 * (((a \div 16) + (b \div 16)) % 2)]]

\* a ^ b on unsigned integers, five bits at a time
RECURSIVE BitXor(_, _)
BitXor(a, b) ==
    IF a = 0 THEN b
    ELSE IF b = 0 THEN a
    ELSE Xor5[a % 32][b % 32] + 32 * BitXor(a \div 32, b \div 32)

GEN == <<996825010, 642813549, 513874426, 1027748829, 705979059>>

\* the for loop of polymod_step: chk ^= GEN[i] for every bit i of b that is set
RECURSIVE polymod_gen(_, _, _)
polymod_gen(chk, b, i) ==
    IF i > 5 THEN chk
    ELSE polymod_gen(IF (b \div 2 ^ (i - 1)) % 2 = 1 THEN BitXor(chk, GEN[i]) ELSE chk,
                     b, i + 1)

\* polymod_step: chk stays below 2^30
polymod_step(chk, value) ==
    polymod_gen(BitXor((chk % 33554432) * 32, value), chk \div 33554432, 1)

\* chk = polymod_step(chk, v) for v = values[lo], ..., values[hi] in order; chk is
\* a u32, and the range is cut in two to keep the evaluation shallow
RECURSIVE polymod_steps(_, _, _, _)
polymod_steps(chk, values, lo, hi) ==
    IF chk \notin Nat \/ lo > hi THEN chk
    ELSE IF lo = hi THEN polymod_step(chk, values[lo])
    ELSE polymod_steps(polymod_steps(chk, values, lo, (lo + hi) \div 2),
                       values, ((lo + hi) \div 2) + 1, hi)

\* the values create_checksum_fixed feeds before the data: the high bits of the
\* prefix, the separator 0, the low bits of the prefix
hrp_values(hrp) ==
    [i \in 1..Len(hrp) |-> hrp[i] \div 32] \o <<0>> \o [i \in 1..Len(hrp) |-> hrp[i] % 32]

\* a variant of create_checksum_fixed without the final chk ^= 1
create_checksum_plain(hrp, data) ==
    LET chk == polymod_steps(1, hrp_values(hrp) \o data \o Rep(0, 6),
                             1, 2 * Len(hrp) + Len(data) + 7)
    IN  [i \in 1..6 |-> (chk \div 2 ^ (5 * (6 - i))) % 32]

\* create_checksum_fixed: six 5-bit values
create_checksum_fixed(hrp, data) ==
    LET chk == BitXor(polymod_steps(1, hrp_values(hrp) \o data \o Rep(0, 6),
                                    1, 2 * Len(hrp) + Len(data) + 7), 1)
    IN  [i \in 1..6 |-> (chk \div 2 ^ (5 * (6 - i))) % 32]

\* the while loop of convert_bits_fixed: the groups of `to` bits that are
\* complete; st is [ok, acc, bits, out]
RECURSIVE convert_bits_drain(_, _, _)
convert_bits_drain(st, to, cap) ==
    IF ~st.ok \/ st.bits < to THEN st
    ELSE IF Len(st.out) >= cap THEN [st EXCEPT !.ok = FALSE]
    ELSE convert_bits_drain(
            [st EXCEPT !.bits = @ - to,
                       !.out = Append(@, (st.acc \div 2 ^ (st.bits - to)) % 2 ^ to)],
            to, cap)

\* the for loop of convert_bits_fixed.  acc is a u32 that is shifted without a
\* mask; the bits it loses at the top are never read (at most bits + to <= 20 of
\* its low bits are), so the model keeps its low 20 bits.
RECURSIVE convert_bits_loop(_, _, _, _, _)
convert_bits_loop(st, data, from, to, cap) ==
    IF ~st.ok \/ data = <<>> THEN st
    ELSE IF Head(data) \div 2 ^ from # 0 THEN [st EXCEPT !.ok = FALSE]
    ELSE convert_bits_loop(
            convert_bits_drain([st EXCEPT !.acc = (@ * 2 ^ from + Head(data)) % 1048576,
                                          !.bits = @ + from], to, cap),
            Tail(data), from, to, cap)

\* the padding step of convert_bits_fixed for the state st its loop left
convert_bits_pad(st, to, pad, cap) ==
    IF ~st.ok \/ ~pad \/ st.bits = 0 THEN st
    ELSE IF Len(st.out) >= cap THEN [st EXCEPT !.ok = FALSE]
    ELSE [st EXCEPT !.out = Append(@, (st.acc * 2 ^ (to - st.bits)) % 2 ^ to)]

\* convert_bits_fixed into an output buffer of cap bytes: ok is FALSE for
\* Err(Deny), out the groups written
convert_bits_fixed(data, from, to, pad, cap) ==
    convert_bits_pad(convert_bits_loop([ok |-> TRUE, acc |-> 0, bits |-> 0, out |-> <<>>],
                                       data, from, to, cap),
                     to, pad, cap)

\* Address::to_bytes for the groups bits of the key: prefix, ':', the symbols of
\* the data and of the checksum
address_symbols(prefix, bits) ==
    IF ~bits.ok \/ \E i \in 1..Len(bits.out) : bits.out[i] >= 32
    THEN [ok |-> FALSE, bytes |-> <<>>]
    ELSE [ok |-> TRUE,
          bytes |-> prefix \o <<SEPARATOR>>
                    \o [i \in 1..Len(bits.out) |-> CHARSET[bits.out[i] + 1]]
                    \o [i \in 1..6 |-> CHARSET[create_checksum_fixed(prefix, bits.out)[i] + 1]]]

\* Address::to_bytes: the key is kept big-endian and encoded little-endian, with
\* the address type 0 behind it
Address_to_bytes(mainnet, public_key) ==
    address_symbols(IF mainnet THEN PREFIX_ADDRESS ELSE TESTNET_PREFIX_ADDRESS,
                    convert_bits_fixed(CompressedRistretto_to_le_bytes(public_key) \o <<0>>,
                                       8, 5, TRUE, 64))

---------------------------------------------------------------------------
(* Session, handlers/sign_tx/mod.rs *)

\* Sha3_512: the hasher is the byte string absorbed so far, the digest is of it
Sha3_512_new == <<>>
Sha3_512_update(h, data) == h \o data
Sha3_512_finalize(h) == <<"sha3_512", h>>

\* TxContext::new, and the state TxContext::reset restores.  memo and tx_hash are
\* Options: the empty sequence is None, a one-element sequence is Some.
TxContext_new ==
    [tx_hasher |-> Sha3_512_new, tx_hash |-> <<>>, path |-> <<>>, total_size |-> 0,
     chunk_count |-> 0, memo |-> <<>>, memo_buffer |-> <<>>, memo_chunk_count |-> 0,
     preview_approved |-> FALSE, sign_completed |-> FALSE, sign_succeeded |-> FALSE,
     parser |-> TxStreamParser_new, verifier |-> CommitmentVerifier_new]

\* a handler's result: status word, the return that fired, the context and the
\* workspace it leaves, the reply payload, what the user did, whether it panicked
HRes(sw, site, c, w, out, ui) ==
    [sw |-> sw, site |-> site, ctx |-> c, ws |-> w, out |-> out, ui |-> ui,
     panic |-> FALSE]

\* a variant of lines 150-156 that stores the preview whatever the user answers
load_memo_review_any(c, r, answer) ==
    HRes("Ok", "", [c EXCEPT !.memo = <<r.preview>>, !.preview_approved = TRUE],
         r.ws, <<>>, IF answer THEN "approve" ELSE "deny")

\* handler_load_memo, lines 150-156: the parsed preview r is put on screen; only
\* the user's approval stores it and sets preview_approved
load_memo_review(c, r, answer) ==
    IF answer
    THEN HRes("Ok", "", [c EXCEPT !.memo = <<r.preview>>, !.preview_approved = TRUE],
              r.ws, <<>>, "approve")
    ELSE HRes("Deny", "mod.rs:155", c, r.ws, <<>>, "deny")

\* handler_load_memo, lines 146-156: the result r of parse_memo_tlv
load_memo_parsed(c, r, answer) ==
    IF ~r.ok THEN HRes(r.sw, "mod.rs:146", c, r.ws, <<>>, "none")
    ELSE load_memo_review(c, r, answer)

\* a variant of handler_load_memo whose chunk 0 withdraws the approval and keeps
\* the stored preview
handler_load_memo_keeps_memo(c, w, chunk, more, data, answer) ==
    LET c1 == IF chunk = 0
              THEN [c EXCEPT !.memo_buffer = <<>>, !.memo_chunk_count = 0,
                             !.preview_approved = FALSE]
              ELSE c
        expected_chunk == IF c1.memo_chunk_count = 0 THEN 0
                          ELSE ((c1.memo_chunk_count - 1) % 255) + 1
        c2 == [c1 EXCEPT !.memo_chunk_count = @ + 1]
        c3 == [c2 EXCEPT !.memo_buffer = @ \o data]
    IN  IF chunk # expected_chunk THEN HRes("TxParsingFail", "mod.rs:130", c1, w, <<>>, "none")
        ELSE IF Len(c2.memo_buffer) + Len(data) > MAX_MEMO_SIZE
        THEN HRes("MemoTooLarge", "mod.rs:136", c2, w, <<>>, "none")
        ELSE IF more THEN HRes("Ok", "", c3, w, <<>>, "none")
        ELSE load_memo_parsed(c3, parse_memo_tlv(c3.memo_buffer), answer)

\* handler_load_memo; answer is what ui_display_memo_tx returns, the user's
\* approval or rejection of the preview on screen
handler_load_memo(c, w, chunk, more, data, answer) ==
    LET c1 == IF chunk = 0
              THEN [c EXCEPT !.memo_buffer = <<>>, !.memo_chunk_count = 0,
                             !.memo = <<>>, !.preview_approved = FALSE]
              ELSE c
        expected_chunk == IF c1.memo_chunk_count = 0 THEN 0
                          ELSE ((c1.memo_chunk_count - 1) % 255) + 1
        c2 == [c1 EXCEPT !.memo_chunk_count = @ + 1]
        c3 == [c2 EXCEPT !.memo_buffer = @ \o data]
    IN  IF chunk # expected_chunk THEN HRes("TxParsingFail", "mod.rs:130", c1, w, <<>>, "none")
        ELSE IF Len(c2.memo_buffer) + Len(data) > MAX_MEMO_SIZE
        THEN HRes("MemoTooLarge", "mod.rs:136", c2, w, <<>>, "none")
        ELSE IF more THEN HRes("Ok", "", c3, w, <<>>, "none")
        ELSE load_memo_parsed(c3, parse_memo_tlv(c3.memo_buffer), answer)

\* the for loop of handler_send_blinders: each 32-byte blinder reversed (LE to BE)
RECURSIVE add_blinders_from(_, _)
add_blinders_from(v, data) ==
    IF Len(data) = 0 THEN v
    ELSE add_blinders_from(add_blinder(v, Reverse(Slice(data, 0, 32))),
                           Slice(data, 32, Len(data)))

\* handler_send_blinders
handler_send_blinders(c, w, p1, p2, data) ==
    IF Len(data) % 32 # 0 THEN HRes("WrongApduLength", "mod.rs:163", c, w, <<>>, "none")
    ELSE LET v1 == IF p1 = 0 THEN init_blinders(c.verifier) ELSE c.verifier
             v2 == add_blinders_from(v1, data)
             c2 == [c EXCEPT !.verifier = v2]
             expected_outputs == IF c.memo[1].tx_type = TX_TRANSFER THEN Len(w.outs) ELSE 0
         IN  IF (p2 \div 128) % 2 = 1 /\ c.memo # <<>>
                /\ Len(v2.blinders) # expected_outputs
             THEN HRes("TxParsingFail", "mod.rs:193", c2, w, <<>>, "none")
             ELSE HRes("Ok", "", c2, w, <<>>, "none")

\* Bip32Path::try_from (utils.rs): a count byte, then that many 4-byte components
Bip32Path_ok(data) == Len(data) > 0 /\ data[1] * 4 = Len(data) - 1
Bip32Path_from(data) == [i \in 1..((Len(data) - 1) \div 4) |-> Slice(data, 4 * i - 3, 4 * i + 1)]

\* result of parse_and_verify_stream
SRes(ok, sw, site, p, v, panic) ==
    [ok |-> ok, sw |-> sw, site |-> site, p |-> p, v |-> v, panic |-> panic]

RECURSIVE transfer_loop(_, _, _, _, _)

\* parse_and_verify_stream, lines 290-299: the body of the loop for the result r
\* of extract_commitment_from_transfer
transfer_step(r, v, w, data, offset) ==
    LET q == [r.p EXCEPT !.bytes_seen = @ + r.off]
        idx == r.p.transfers_parsed - 1
    IN  IF ~r.ok THEN SRes(FALSE, r.sw, r.site, r.p, v, r.sw = "Panic")
        ELSE IF r.c = <<>> THEN transfer_loop(q, v, w, data, offset + r.off)
        ELSE IF idx >= Len(w.outs) THEN SRes(FALSE, "Panic", "mod.rs:293", r.p, v, TRUE)
        ELSE LET vo == verify_output(v, idx, r.c, w.outs[idx + 1].amount) IN
             IF ~vo.ok THEN SRes(FALSE, vo.sw, vo.site, r.p, v, FALSE)
             ELSE transfer_loop(q, vo.v, w, data, offset + r.off)

\* parse_and_verify_stream, lines 284-300: one commitment per iteration
transfer_loop(p, v, w, data, offset) ==
    IF p.transfers_parsed < p.transfer_count /\ offset < Len(data) THEN
        transfer_step(extract_commitment_from_transfer(p, Slice(data, offset, Len(data))),
                      v, w, data, offset)
    ELSE SRes(TRUE, "Ok", "", p, v, FALSE)

\* parse_and_verify_stream, lines 306-308: the result b of parse_burn
stream_burn(b, v) ==
    IF ~b.ok THEN SRes(FALSE, b.sw, b.site, b.p, v, FALSE)
    ELSE SRes(TRUE, "Ok", "", [b.p EXCEPT !.bytes_seen = @ + b.off], v, FALSE)

\* parse_and_verify_stream, lines 277-320: the match on the preview's type, for
\* the result h of the header step
stream_payload(h, v, memo, w, data) ==
    IF ~h.ok THEN SRes(FALSE, h.sw, h.site, h.p, v, FALSE)
    ELSE IF memo[1].tx_type = TX_TRANSFER THEN
        IF h.p.in_transfers THEN transfer_loop(h.p, v, w, data, h.off)
        ELSE SRes(TRUE, "Ok", "", h.p, v, FALSE)
    ELSE IF memo[1].tx_type = TX_BURN THEN
        IF h.p.bytes_seen >= 35 /\ ~h.p.burn_parsed THEN
            stream_burn(parse_burn(h.p, Slice(data, h.off, Len(data)), w), v)
        ELSE IF h.p.burn_parsed /\ h.off < Len(data)
        THEN SRes(FALSE, "TxParsingFail", "mod.rs:311", h.p, v, FALSE)
        ELSE SRes(TRUE, "Ok", "", h.p, v, FALSE)
    ELSE SRes(TRUE, "Ok", "", h.p, v, FALSE)

\* parse_and_verify_stream; memo is ctx.memo (an Option)
parse_and_verify_stream(p, v, memo, w, data) ==
    IF memo = <<>> THEN SRes(FALSE, "MemoInvalid", "mod.rs:272", p, v, FALSE)
    ELSE stream_payload(IF p.bytes_seen < 35 THEN parse_header(p, data, memo[1], w)
                        ELSE POk(p, 0),
                        v, memo, w, data)

\* a variant of schnorr_sign that signs with one key whatever the path
schnorr_sign_one_key(path, hash) == [key |-> <<>>, msg |-> hash]

\* schnorr_sign under the key derived from the path: the signature is a function
\* of the key and the digest alone (crypto/signature.rs); derivation and the
\* coprocessor are taken to succeed
schnorr_sign(path, hash) == [key |-> path, msg |-> hash]

\* the final validation of finalize_transaction, lines 327-349: "" when it passes,
\* else the return that fires
finalize_check(c, w) ==
    IF c.memo = <<>> THEN ""
    ELSE IF c.memo[1].tx_type = TX_TRANSFER THEN
        IF ~all_verified(c.verifier) THEN "mod.rs:331"
        ELSE IF verified_count(c.verifier) # Len(w.outs) THEN "mod.rs:335"
        ELSE ""
    ELSE IF c.memo[1].tx_type = TX_BURN THEN
        IF ~c.parser.burn_parsed THEN "mod.rs:341"
        ELSE IF c.total_size # 75 THEN "mod.rs:344"
        ELSE ""
    ELSE ""

\* finalize_transaction and compute_signature_and_append: the reply is 0x40 and
\* the signature of the digest of everything hashed
finalize_transaction(c, w) ==
    LET site == finalize_check(c, w)
        hash == Sha3_512_finalize(c.tx_hasher)
    IN  IF site \in {"mod.rs:331", "mod.rs:335"}
        THEN HRes("InvalidCommitment", site, c, w, <<>>, "none")
        ELSE IF site # "" THEN HRes("TxParsingFail", site, c, w, <<>>, "none")
        ELSE HRes("Ok", "", [c EXCEPT !.tx_hash = <<hash>>], w,
                  <<64, schnorr_sign(c.path, hash)>>, "none")

\* a variant of lines 214-238 without the preview_approved gate of line 215
sign_tx_first_ungated(c, w, data) ==
    LET c1 == [c EXCEPT !.sign_completed = FALSE, !.sign_succeeded = FALSE,
                        !.tx_hasher = Sha3_512_new, !.tx_hash = <<>>,
                        !.total_size = 0, !.chunk_count = 0]
        c2 == [c1 EXCEPT !.path = Bip32Path_from(data), !.parser = TxStreamParser_new]
        c3 == IF c2.memo # <<>> /\ c2.memo[1].tx_type \in {0, 1}
              THEN [c2 EXCEPT !.verifier = init_verification(@, Len(w.outs))]
              ELSE c2
    IN  IF ~Bip32Path_ok(data) THEN HRes("WrongApduLength", "mod.rs:225", c1, w, <<>>, "none")
        ELSE HRes("Ok", "", c3, w, <<>>, "none")

\* handler_sign_tx, lines 214-238: chunk 0 carries the path and starts the stream
sign_tx_first(c, w, data) ==
    LET c1 == [c EXCEPT !.sign_completed = FALSE, !.sign_succeeded = FALSE,
                        !.tx_hasher = Sha3_512_new, !.tx_hash = <<>>,
                        !.total_size = 0, !.chunk_count = 0]
        c2 == [c1 EXCEPT !.path = Bip32Path_from(data), !.parser = TxStreamParser_new]
        c3 == IF c2.memo # <<>> /\ c2.memo[1].tx_type \in {0, 1}
              THEN [c2 EXCEPT !.verifier = init_verification(@, Len(w.outs))]
              ELSE c2
    IN  IF ~c.preview_approved THEN HRes("MemoRequired", "mod.rs:216", c, w, <<>>, "none")
        ELSE IF ~Bip32Path_ok(data) THEN HRes("WrongApduLength", "mod.rs:225", c1, w, <<>>, "none")
        ELSE HRes("Ok", "", c3, w, <<>>, "none")

\* a variant of line 241 that counts body chunks from 0
expected_p1_from_zero(chunk_count) == chunk_count % 255

\* a variant of line 241 that counts on the whole index byte
expected_p1_mod256(chunk_count) == (chunk_count + 1) % 256

\* handler_sign_tx, line 241: the P1 the next body chunk must carry
expected_p1(chunk_count) == (chunk_count % 255) + 1

\* handler_sign_tx, lines 263-265: the result f of finalize_transaction
sign_tx_finalized(f) ==
    IF f.sw # "Ok" THEN f
    ELSE [f EXCEPT !.ctx.sign_succeeded = TRUE, !.ctx.sign_completed = TRUE]

\* handler_sign_tx, lines 260-268: the result r of parse_and_verify_stream
sign_tx_parsed(c, r, w, more) ==
    LET c3 == [c EXCEPT !.parser = r.p, !.verifier = r.v]
    IN  IF r.panic THEN [HRes("Panic", r.site, c3, w, <<>>, "none") EXCEPT !.panic = TRUE]
        ELSE IF ~r.ok THEN HRes(r.sw, r.site, c3, w, <<>>, "none")
        ELSE IF more THEN HRes("Ok", "", c3, w, <<>>, "none")
        ELSE sign_tx_finalized(finalize_transaction(c3, w))

\* handler_sign_tx, lines 240-268: a body chunk is counted, hashed, parsed and
\* verified, and the last one is finalized
sign_tx_body(c, w, chunk, more, data) ==
    LET c1 == [c EXCEPT !.chunk_count = @ + 1, !.total_size = @ + Len(data)]
        c2 == [c1 EXCEPT !.tx_hasher = Sha3_512_update(@, data)]
    IN  IF chunk # expected_p1(c.chunk_count)
        THEN HRes("TxParsingFail", "mod.rs:243", c, w, <<>>, "none")
        ELSE IF c1.total_size > MAX_TRANSACTION_LEN
        THEN HRes("TxWrongLength", "mod.rs:250", c1, w, <<>>, "none")
        ELSE IF c1.chunk_count > MAX_CHUNKS
        THEN HRes("TxParsingFail", "mod.rs:253", c1, w, <<>>, "none")
        ELSE sign_tx_parsed(c2, parse_and_verify_stream(c2.parser, c2.verifier, c2.memo,
                                                        w, data),
                            w, more)

\* handler_sign_tx
handler_sign_tx(c, w, chunk, more, data) ==
    IF Len(data) = 0 THEN HRes("TxParsingFail", "mod.rs:211", c, w, <<>>, "none")
    ELSE IF chunk = 0 THEN sign_tx_first(c, w, data)
    ELSE sign_tx_body(c, w, chunk, more, data)

---------------------------------------------------------------------------
(* Dispatch, main.rs *)

P1_CHUNK_FIRST == 0
P1_CHUNK_MAX == 255

\* the INS byte of each instruction
InsCode(ins) ==
    IF ins = "GetVersion" THEN 3 ELSE IF ins = "GetAppName" THEN 4
    ELSE IF ins = "GetPubkey" THEN 5 ELSE IF ins = "SignTx" THEN 6
    ELSE IF ins = "LoadMemo" THEN 16 ELSE IF ins = "SendBlinders" THEN 18
    ELSE IF ins = "DebugTestKeys" THEN 240 ELSE 0

InsOk(ins) == [ok |-> TRUE, ins |-> ins, sw |-> "Ok"]
InsErr(sw) == [ok |-> FALSE, ins |-> "none", sw |-> sw]

\* a variant of try_from that takes SignTx chunk 0 with either P2
Instruction_try_from_either_p2(ins, p1, p2) ==
    IF ins = 6 /\ p2 \in {P2_CHUNK_LAST, P2_MORE_DATA} THEN InsOk("SignTx")
    ELSE IF ins = 16 /\ p2 \in {P2_CHUNK_LAST, P2_MORE_DATA} THEN InsOk("LoadMemo")
    ELSE IF ins = 18 THEN InsOk("SendBlinders")
    ELSE IF ins \in {3, 4} /\ p1 = 0 /\ p2 = 0
    THEN InsOk(IF ins = 3 THEN "GetVersion" ELSE "GetAppName")
    ELSE IF ins = 5 /\ p1 \in {0, 1} /\ p2 = 0 THEN InsOk("GetPubkey")
    ELSE IF ins = 240 /\ host.debug_assertions THEN InsOk("DebugTestKeys")
    ELSE IF ins \in {3, 4, 5, 6, 16, 18} THEN InsErr("WrongP1P2")
    ELSE InsErr("InsNotSupported")

\* Instruction::try_from(ApduHeader): the arms of the match in their order
Instruction_try_from(ins, p1, p2) ==
    IF ins = 3 /\ p1 = 0 /\ p2 = 0 THEN InsOk("GetVersion")
    ELSE IF ins = 4 /\ p1 = 0 /\ p2 = 0 THEN InsOk("GetAppName")
    ELSE IF ins = 5 /\ p1 \in {0, 1} /\ p2 = 0 THEN InsOk("GetPubkey")
    ELSE IF \/ ins = 6 /\ p1 = P1_CHUNK_FIRST /\ p2 = P2_MORE_DATA
            \/ ins = 6 /\ p1 \in 1..P1_CHUNK_MAX /\ p2 \in {P2_CHUNK_LAST, P2_MORE_DATA}
    THEN InsOk("SignTx")
    ELSE IF ins = 16 /\ p1 \in P1_CHUNK_FIRST..P1_CHUNK_MAX
                     /\ p2 \in {P2_CHUNK_LAST, P2_MORE_DATA}
    THEN InsOk("LoadMemo")
    ELSE IF ins = 18 THEN InsOk("SendBlinders")
    ELSE IF host.debug_assertions /\ ins = 240 THEN InsOk("DebugTestKeys")
    ELSE IF ins \in 3..6 \/ ins = 16 \/ ins = 18 THEN InsErr("WrongP1P2")
    ELSE InsErr("InsNotSupported")

SessionIns == {"SignTx", "LoadMemo", "SendBlinders"}

\* a variant of TxContext::reset that leaves the context as it is
TxContext_keep(c) == c

\* TxContext::reset
TxContext_reset(c) == TxContext_new

\* a variant of the Action choice in which a SignTx error resets nothing
status_resets_on_success(c, ins, more, status) ==
    IF ins = "LoadMemo" THEN ~more /\ status = "Deny"
    ELSE IF ins = "SendBlinders" THEN status # "Ok"
    ELSE IF ins = "SignTx" THEN c.sign_completed
    ELSE FALSE

\* the reset field of the Action that show_status_and_home_if_needed chooses
status_resets(c, ins, more, status) ==
    IF ins = "LoadMemo" THEN ~more /\ status = "Deny"
    ELSE IF ins = "SendBlinders" THEN status # "Ok"
    ELSE IF ins = "SignTx" THEN c.sign_completed \/ status # "Ok"
    ELSE FALSE

\* show_status_and_home_if_needed: the context it leaves behind
show_status_and_home_if_needed(c, ins, more, status) ==
    IF status_resets(c, ins, more, status) THEN TxContext_reset(c) ELSE c

\* with_derived_key and the closure of handler_get_public_key: the compressed
\* public key of the key at path, little-endian.  The derivation and the group are not modelled:
\* the 32 bytes are the components of the path and then their count, so that two
\* paths have two keys.
derived_public_key(path) ==
    [i \in 1..32 |-> IF i <= 4 * Len(path) THEN path[((i - 1) \div 4) + 1][((i - 1) % 4) + 1]
                     ELSE Len(path)]

\* ui_display_pk: the address is converted to a [u8; 32] before anything is put
\* on screen; answer is what the address review returns when it is shown
ui_display_pk(addr, answer) ==
    IF Len(addr) # 32 THEN [ok |-> FALSE, sw |-> "AddrDisplayFail", ui |-> "none"]
    ELSE [ok |-> TRUE, sw |-> IF answer THEN "Ok" ELSE "Deny",
          ui |-> IF answer THEN "approve" ELSE "deny"]

\* handler_get_public_key, lines 23-31: the result d of ui_display_pk
get_public_key_answered(c, w, pk_le, d) ==
    IF ~d.ok THEN HRes(d.sw, "get_public_key.rs:23", c, w, <<>>, d.ui)
    ELSE IF d.sw # "Ok" THEN HRes("Deny", "get_public_key.rs:24", c, w, <<>>, d.ui)
    ELSE HRes("Ok", "", c, w, <<32>> \o pk_le, d.ui)

\* handler_get_public_key, lines 22-31: the result addr of Address::to_bytes
get_public_key_shown(c, w, pk_le, addr, answer) ==
    IF ~addr.ok THEN HRes("TxSignFail", "get_public_key.rs:22", c, w, <<>>, "none")
    ELSE get_public_key_answered(c, w, pk_le, ui_display_pk(addr.bytes, answer))

\* handler_get_public_key, lines 18-31: with display the address of the key, always
\* for the main network, goes to ui_display_pk first
get_public_key_reply(c, w, display, pk_le, answer) ==
    IF ~display THEN HRes("Ok", "", c, w, <<32>> \o pk_le, "none")
    ELSE get_public_key_shown(
            c, w, pk_le,
            Address_to_bytes(TRUE, CompressedRistretto_from_le_bytes(pk_le)), answer)

\* handler_get_public_key
handler_get_public_key(c, w, display, data, answer) ==
    IF ~Bip32Path_ok(data) THEN HRes("WrongApduLength", "get_public_key.rs:9", c, w, <<>>, "none")
    ELSE get_public_key_reply(c, w, display,
                              derived_public_key(Bip32Path_from(data)), answer)

\* a variant of handle_apdu without the reset before the other instructions
handle_apdu_kept(c, w, ins, p1, p2, data, answer) ==
    IF ins = "SignTx" THEN handler_sign_tx(c, w, p1, p2 = P2_MORE_DATA, data)
    ELSE IF ins = "LoadMemo" THEN handler_load_memo(c, w, p1, p2 = P2_MORE_DATA, data, answer)
    ELSE IF ins = "SendBlinders" THEN handler_send_blinders(c, w, p1, p2, data)
    ELSE IF ins = "GetPubkey" THEN handler_get_public_key(c, w, p1 = 1, data, answer)
    ELSE HRes("Ok", "", c, w, <<>>, "none")

\* handle_apdu for the session instructions; every other instruction resets the
\* context before its handler runs
handle_apdu(c, w, ins, p1, p2, data, answer) ==
    IF ins = "SignTx" THEN handler_sign_tx(c, w, p1, p2 = P2_MORE_DATA, data)
    ELSE IF ins = "LoadMemo" THEN handler_load_memo(c, w, p1, p2 = P2_MORE_DATA, data, answer)
    ELSE IF ins = "SendBlinders" THEN handler_send_blinders(c, w, p1, p2, data)
    ELSE IF ins = "GetPubkey"
    THEN handler_get_public_key(TxContext_reset(c), w, p1 = 1, data, answer)
    ELSE IF ins = "DebugTestKeys" /\ p2 \notin {0, 1}
    THEN HRes("WrongP1P2", "debug_keys.rs:19", TxContext_reset(c), w, <<>>, "none")
    ELSE HRes("Ok", "", TxContext_reset(c), w, <<>>, "none")

\* one turn of the loop of sample_main: handle_apdu, the reply, then
\* show_status_and_home_if_needed.  A panic exits the application, which starts
\* again from its initial state.
main_reply(h, ins, more) ==
    [sw |-> h.sw, site |-> h.site, out |-> h.out, ui |-> h.ui,
     reset |-> h.panic \/ ins \notin SessionIns \/ status_resets(h.ctx, ins, more, h.sw),
     ctx |-> IF h.panic THEN TxContext_new
             ELSE show_status_and_home_if_needed(h.ctx, ins, more, h.sw),
     ws |-> IF h.panic THEN WsEmpty ELSE h.ws]

\* the loop body of sample_main for one APDU
main_turn(c, w, ins, p1, p2, data, answer) ==
    main_reply(handle_apdu(c, w, ins, p1, p2, data, answer), ins, p2 = P2_MORE_DATA)

---------------------------------------------------------------------------
(* The host: the frames it may send *)

LeU64(n) == Reverse(U64(n))

RecTxType(t) == <<TAG_TX_TYPE, 1, t>>
RecFee(f) == <<TAG_FEE, 8>> \o LeU64(f)
RecNonce(n) == <<TAG_NONCE, 8>> \o LeU64(n)
RecOutItem(ai, dest, amount) ==
    <<TAG_OUT_ITEM, 43, ai>> \o Rep(dest, 32) \o LeU64(amount) \o <<0, 0>>
RecBurn(ai, amount) == <<TAG_BURN, 10, ai>> \o LeU64(amount) \o <<0>>

\* previews: a transfer of 5 to destination 17, and a burn of 5
MemoTransfer == RecTxType(TX_TRANSFER) \o RecFee(25) \o RecNonce(7) \o RecOutItem(0, 17, 5)
MemoBurn == RecTxType(TX_BURN) \o RecFee(25) \o RecNonce(7) \o RecBurn(0, 5)
\* a continuation: a burn of 9 followed by a record cut short
MemoBadTail == RecBurn(0, 9) \o <<TAG_OUT_ITEM>>

MemoChunkSet == {MemoTransfer, MemoBurn, MemoBadTail}

\* a blinder on the wire is little-endian
BlinderWire(k) == <<k>> \o Rep(0, 31)
BlinderBe(k) == Rep(0, 31) \o <<k>>
BlinderChunkSet == {BlinderWire(1), BlinderWire(2), Rep(0, 31)}

PathSet == {<<1, 128, 0, 0, 44>>, <<1, 0, 0, 0>>, <<>>}

\* a transaction body: version, source key, type, then the payload of its type
BodyHeader(ver, typ) == <<ver>> \o Rep(9, 32) \o <<typ>>

ExtraNone == <<0>>
ExtraOverflow == <<1>> \o Rep(128, 10)

OutDesc(dest, extra, amount, k) == [dest |-> dest, extra |-> extra, amount |-> amount, k |-> k]

\* what follows the commitment of a transfer on the wire: the sender's and the
\* receiver's handle, 32 bytes each, and the proof, 128 bytes in version 0 and 160
\* from version 1 on
TransferTail(ver) == Rep(238, 32) \o Rep(238, 32) \o Rep(238, IF ver = 0 THEN 128 ELSE 160)

\* one transfer: asset, destination, extra data, commitment, then the ciphertext
\* handles and range proof the parser skips
TransferBytes(o, ver) ==
    Rep(0, 32) \o Rep(o.dest, 32) \o o.extra
        \o PedersenCommit(U64(o.amount), BlinderBe(o.k))
        \o TransferTail(ver)

RECURSIVE TransfersBytes(_, _)
TransfersBytes(outs, ver) ==
    IF outs = <<>> THEN <<>>
    ELSE TransferBytes(Head(outs), ver) \o TransfersBytes(Tail(outs), ver)

BodyDesc(ver, typ, outs, amount, trail) ==
    [ver |-> ver, typ |-> typ, outs |-> outs, amount |-> amount, trail |-> trail]

BodyBytes(b) ==
    BodyHeader(b.ver, b.typ) \o
    (IF b.typ = TX_TRANSFER THEN <<Len(b.outs)>> \o TransfersBytes(b.outs, b.ver)
     ELSE IF b.typ = TX_BURN THEN Rep(0, 32) \o U64(b.amount) \o Rep(0, b.trail)
     ELSE Rep(3, b.trail))

Bodies ==
    << BodyDesc(1, TX_TRANSFER, <<OutDesc(17, ExtraNone, 5, 1)>>, 0, 0),
       BodyDesc(1, TX_TRANSFER, <<OutDesc(34, ExtraNone, 5, 1)>>, 0, 0),
       BodyDesc(1, TX_TRANSFER, <<OutDesc(17, ExtraNone, 7, 1)>>, 0, 0),
       BodyDesc(1, TX_TRANSFER, <<OutDesc(17, ExtraOverflow, 5, 1)>>, 0, 0),
       BodyDesc(1, TX_BURN, <<>>, 5, 1),
       BodyDesc(1, TX_BURN, <<>>, 9, 1) >>

\* the bytes of each body, and where the host may cut it into chunks
BodyData == [i \in 1..Len(Bodies) |-> BodyBytes(Bodies[i])]
CutsOf(b) ==
    IF Bodies[b].typ = TX_TRANSFER THEN {110, 255}
    ELSE IF Bodies[b].typ = TX_BURN THEN {34, 74}
    ELSE {35}

\* the host since the last reset: the body it is streaming and how much of it is
\* sent, and the number of frames of each kind
\* and whether the user's last verdict on a preview was to decline it.
\* fed is the payloads of the body chunks accepted since the last accepted SignTx
\* chunk 0, in arrival order.
\* items and declared describe a preview sent piece by piece: the OUT_ITEM
\* records in it and the count of its last OUT_COUNT record, -1 without one;
\* assets and index the entries of its asset tables and the largest asset index
\* of its OUT_ITEM and BURN records; varint the bytes of its longest varint.
\* path is the path of the last accepted SignTx chunk 0.
\* overflow_checks and debug_assertions are how the application was built: with
\* the first an integer overflow panics, without it the result wraps around; the
\* second compiles the DebugTestKeys instruction in.
HostIdle == [body |-> 0, sent |-> 0, chunks |-> 0, memos |-> 0, starts |-> 0,
             denied |-> FALSE, fed |-> <<>>, items |-> 0, declared |-> -1,
             assets |-> 0, index |-> 0, varint |-> 0, path |-> <<>>,
             overflow_checks |-> FALSE, debug_assertions |-> FALSE]

\* fed across a reset: payloads accepted before it still count as fed, and are
\* kept as one element that is no byte, since their content no longer matters
Leftover(s, reset) == IF reset /\ s # <<>> THEN <<-1>> ELSE s

\* what the session holds that a signing attempt depends on
Snapshot(c, w) == [memo |-> c.memo, ws |-> w, blinders |-> c.verifier.blinders]

\* an APDU as the properties read it: instruction, INS byte, P1, P2 and payload
\* length
Frame(ins, p1, p2, data) ==
    [ins |-> ins, code |-> InsCode(ins), p1 |-> p1, p2 |-> p2, n |-> Len(data)]
NoFrame == [ins |-> "none", code |-> 0, p1 |-> 0, p2 |-> 0, n |-> 0]
NoResp == [sw |-> "none", site |-> "", out |-> <<>>, ui |-> "none"]

Reply(t) == [sw |-> t.sw, site |-> t.site, out |-> t.out, ui |-> t.ui]

---------------------------------------------------------------------------
(* The state machine *)

\* ctx is the TxContext of sample_main and ws the static MEMO_WS.  frame and resp
\* are the last APDU and its reply.  shown, att and host are history: the preview
\* the user approved that still stands, what the session held when SignTx chunk 0
\* was accepted, and what the host has sent since the last reset.
Init ==
    /\ ctx = TxContext_new
    /\ ws = WsEmpty
    /\ frame = NoFrame
    /\ resp = NoResp
    /\ shown = <<>>
    /\ att = <<>>
    /\ host = HostIdle

\* the state after a turn t of the main loop on APDU f: h is the host's count
\* when the session lives on, sh and at the history kept in that case
After(t, f, h, sh, at) ==
    /\ ctx' = t.ctx
    /\ ws' = t.ws
    /\ frame' = f
    /\ resp' = Reply(t)
    /\ host' = [IF t.reset THEN HostIdle ELSE h EXCEPT
                    !.denied = t.ui = "deny" \/ (host.denied /\ t.ui # "approve"),
                    !.fed = Leftover(IF t.sw = "Ok" THEN h.fed ELSE host.fed, t.reset),
                    !.overflow_checks = host.overflow_checks,
                    !.debug_assertions = host.debug_assertions]
    /\ shown' = IF t.reset THEN <<>> ELSE sh
    /\ att' = IF t.reset THEN <<>> ELSE at

\* the history after a LoadMemo turn t: an approved preview is the one shown, a
\* first chunk withdraws the last one
AfterMemo(t, f, h, chunk, answer) ==
    /\ answer \/ t.ui = "deny"
    /\ After(t, f, h,
             IF t.ui = "approve" THEN <<[memo |-> t.ctx.memo[1], ws |-> t.ws]>>
             ELSE IF chunk = 0 THEN <<>> ELSE shown,
             att)

\* the history after a SignTx chunk 0 turn t: an accepted start is snapshotted
AfterStart(t, f, h) == After(t, f, h, shown, <<Snapshot(t.ctx, t.ws)>>)

\* LOAD_MEMO (INS 0x10): P1 is the chunk index, P2 says whether more follows
LoadMemo ==
    \E chunk \in 0..(MaxMemoChunks - 1), p2 \in {P2_CHUNK_LAST, P2_MORE_DATA},
       data \in MemoChunkSet, answer \in BOOLEAN :
        /\ host.memos < MaxMemoChunks
        /\ AfterMemo(main_turn(ctx, ws, "LoadMemo", chunk, p2, data, answer),
                     Frame("LoadMemo", chunk, p2, data),
                     [host EXCEPT !.memos = @ + 1], chunk, answer)

\* SEND_BLINDERS (INS 0x12): any P1 and P2 decode
SendBlinders ==
    \E p1 \in {0, 1}, p2 \in {P2_CHUNK_LAST, P2_MORE_DATA}, data \in BlinderChunkSet :
        /\ (IF p1 = 0 THEN 0 ELSE Len(ctx.verifier.blinders)) + Len(data) \div 32
               <= MaxBlinders
        /\ After(main_turn(ctx, ws, "SendBlinders", p1, p2, data, FALSE),
                 Frame("SendBlinders", p1, p2, data), host, shown, att)

\* SIGN_TX (INS 0x06) chunk 0: decodes only with P2 = more; carries the path
SignTxFirst ==
    \E data \in PathSet :
        /\ host.starts < MaxStarts
        /\ AfterStart(main_turn(ctx, ws, "SignTx", 0, P2_MORE_DATA, data, FALSE),
                      Frame("SignTx", 0, P2_MORE_DATA, data),
                      [host EXCEPT !.starts = @ + 1, !.body = 0, !.sent = 0,
                                   !.fed = <<>>, !.path = Bip32Path_from(data)])

\* SIGN_TX chunks 1..: the next piece of the body the host is streaming, cut at
\* one of the places of CutsOf or at its end; an empty piece is a frame too
SignTxBody ==
    \E p1 \in {ctx.chunk_count + 1, ctx.chunk_count + 2},
       p2 \in {P2_CHUNK_LAST, P2_MORE_DATA},
       b \in (IF host.body = 0 THEN 1..Len(Bodies) ELSE {host.body}) :
      \E cut \in CutsOf(b) \cup {host.sent, Len(BodyData[b])} :
        /\ host.chunks < MaxBodyChunks
        /\ cut >= host.sent
        /\ cut - host.sent <= 255
        /\ LET data == Slice(BodyData[b], host.sent, cut) IN
            After(main_turn(ctx, ws, "SignTx", p1, p2, data, FALSE),
                  Frame("SignTx", p1, p2, data),
                  [host EXCEPT !.body = b, !.sent = cut, !.chunks = @ + 1,
                               !.fed = @ \o data],
                  shown, att)

\* the paths the host asks the key of: one and two components, none, and two
\* encodings Bip32Path::try_from refuses
KeyPathSet == {<<1, 128, 0, 0, 44>>, <<2, 128, 0, 0, 44, 128, 0, 0, 1>>, <<0>>,
               <<1, 0, 0, 0>>, <<>>}

\* the history after a GetPubkey turn t: the session is over, and the host
\* remembers the path it asked for
AfterKey(t, f, path) ==
    /\ ctx' = t.ctx
    /\ ws' = t.ws
    /\ frame' = f
    /\ resp' = Reply(t)
    /\ host' = [HostIdle EXCEPT !.path = path, !.denied = t.ui = "deny",
                                 !.overflow_checks = host.overflow_checks,
                    !.debug_assertions = host.debug_assertions]
    /\ shown' = <<>>
    /\ att' = <<>>

\* GET_PUBKEY with P1 = 0 (silent) or 1 (display): handle_apdu resets the context
\* first
GetPubkey ==
    \E p1 \in {0, 1}, data \in KeyPathSet, answer \in BOOLEAN :
        AfterKey(main_turn(ctx, ws, "GetPubkey", p1, 0, data, answer),
                 Frame("GetPubkey", p1, 0, data),
                 IF Bip32Path_ok(data) THEN Bip32Path_from(data) ELSE <<>>)

\* GET_VERSION, GET_APP_NAME, GET_PUBKEY without a path: handle_apdu resets the
\* context first
NonSession ==
    \E ins \in {"GetVersion", "GetAppName", "GetPubkey"} :
        /\ ins \notin SessionIns
        /\ After(main_turn(ctx, ws, ins, 0, 0, <<>>, FALSE), Frame(ins, 0, 0, <<>>),
                 host, shown, att)

Next == LoadMemo \/ SendBlinders \/ SignTxFirst \/ SignTxBody \/ NonSession

Spec == Init /\ [][Next]_vars

---------------------------------------------------------------------------
(* Long sessions: the host sends enough chunks for the index byte to roll over *)

\* a preview of a type whose body the stream parser only hashes
MemoMultisig == RecTxType(TX_MULTISIG) \o RecFee(25) \o RecNonce(7)

\* the body the host streams one byte per chunk
LongBytes == BodyHeader(1, TX_MULTISIG) \o Rep(3, MaxLong)

\* the indices the host tries for the k-th chunk after the first: k counted on one
\* byte, k under the rollover that skips 0, and the index after it
IndexSet(k) == {k % 256, ((k - 1) % 255) + 1, (k + 1) % 256}

\* in a long session the host counts the chunks the device accepted: host.memos
\* since the last accepted LoadMemo chunk 0, that chunk included, and host.chunks
\* the body chunks since the last accepted SignTx chunk 0 or reset
AfterLong(t, f, h, chunk, answer) ==
    AfterMemo(t, f, IF t.sw = "Ok" THEN h ELSE host, chunk, answer)

\* LOAD_MEMO with an empty payload and more to come
LongMemo ==
    \E chunk \in IndexSet(host.memos) :
        /\ host.memos < MaxLong
        /\ host.chunks = 0
        /\ AfterLong(main_turn(ctx, ws, "LoadMemo", chunk, P2_MORE_DATA, <<>>, TRUE),
                     Frame("LoadMemo", chunk, P2_MORE_DATA, <<>>),
                     [host EXCEPT !.memos = IF chunk = 0 THEN 1 ELSE @ + 1],
                     chunk, TRUE)

\* LOAD_MEMO, final chunk: the preview's records, which the user approves
LongPreview ==
    \E chunk \in IndexSet(host.memos) :
        /\ host.memos < MaxLong
        /\ host.chunks = 0
        /\ shown = <<>>
        /\ AfterLong(main_turn(ctx, ws, "LoadMemo", chunk, P2_CHUNK_LAST, MemoMultisig, TRUE),
                     Frame("LoadMemo", chunk, P2_CHUNK_LAST, MemoMultisig),
                     [host EXCEPT !.memos = IF chunk = 0 THEN 1 ELSE @ + 1],
                     chunk, TRUE)

\* SIGN_TX chunk 0 with a valid path
LongStart ==
    /\ host.starts < MaxStarts
    /\ AfterStart(main_turn(ctx, ws, "SignTx", 0, P2_MORE_DATA, <<1, 128, 0, 0, 44>>, FALSE),
                  Frame("SignTx", 0, P2_MORE_DATA, <<1, 128, 0, 0, 44>>),
                  [host EXCEPT !.starts = @ + 1, !.chunks = 0, !.fed = <<>>,
                               !.path = Bip32Path_from(<<1, 128, 0, 0, 44>>)])

\* SIGN_TX chunks 1..: the next byte of the body, more to come
LongBody ==
    \E p1 \in IndexSet(host.chunks + 1) \ {0} :
        /\ host.chunks < MaxLong
        /\ After(main_turn(ctx, ws, "SignTx", p1, P2_MORE_DATA,
                           <<LongBytes[host.chunks + 1]>>, FALSE),
                 Frame("SignTx", p1, P2_MORE_DATA, <<LongBytes[host.chunks + 1]>>),
                 [host EXCEPT !.chunks = @ + 1, !.fed = @ \o <<LongBytes[host.chunks + 1]>>],
                 shown, att)

NextLong == LongMemo \/ LongPreview \/ LongStart \/ LongBody

SpecLong == Init /\ [][NextLong]_vars

---------------------------------------------------------------------------
(* Previews with an OUT_COUNT record, sent piece by piece *)

RecOutCount(n) == <<TAG_OUT_COUNT, n>>

\* a piece of a preview: whole records, the OUT_ITEM records among them, and the
\* count its OUT_COUNT record declares (-1 without one)
Piece(bytes, items, declared) ==
    [bytes |-> bytes, items |-> items, declared |-> declared, assets |-> 0, index |-> 0]

PieceSet ==
    { Piece(RecTxType(TX_TRANSFER) \o RecFee(25) \o RecNonce(7), 0, -1),
      Piece(RecOutItem(0, 17, 5), 1, -1),
      Piece(RecOutItem(0, 34, 7), 1, -1),
      Piece(RecOutCount(0), 0, 0),
      Piece(RecOutCount(1), 0, 1),
      Piece(RecOutCount(2), 0, 2) }

\* the preview the host has sent once piece pc went out with index chunk
PreviewSent(chunk, pc) ==
    [host EXCEPT !.memos = IF chunk = 0 THEN 1 ELSE @ + 1,
                 !.items = (IF chunk = 0 THEN 0 ELSE @) + pc.items,
                 !.declared = IF pc.declared # -1 THEN pc.declared
                              ELSE IF chunk = 0 THEN -1 ELSE @,
                 !.assets = (IF chunk = 0 THEN 0 ELSE @) + pc.assets,
                 !.index = IF chunk # 0 /\ @ > pc.index THEN @ ELSE pc.index]

\* the state after a LoadMemo turn t that carried one piece.  Every record of a
\* piece is well formed, so that TxParsingFail is the rejection of the chunk's
\* index (line 130) and every other status means the chunk was appended.  The
\* description of the preview outlives the reset that follows a rejection by the
\* user; the chunk count does not.
AfterPiece(t, f, h, chunk, answer) ==
    /\ answer \/ t.ui = "deny"
    /\ ctx' = t.ctx
    /\ ws' = t.ws
    /\ frame' = f
    /\ resp' = Reply(t)
    /\ host' = [IF t.sw = "TxParsingFail" THEN host ELSE h EXCEPT
                    !.memos = IF t.reset THEN 0 ELSE @,
                    !.denied = t.ui = "deny" \/ (host.denied /\ t.ui # "approve")]
    /\ shown' = IF t.reset THEN <<>>
                ELSE IF t.ui = "approve" THEN <<[memo |-> t.ctx.memo[1], ws |-> t.ws]>>
                ELSE IF chunk = 0 THEN <<>> ELSE shown
    /\ att' = IF t.reset THEN <<>> ELSE att

\* LOAD_MEMO carrying one piece, with the index of a first chunk, the index the
\* host's count calls for, or the one after it
LoadPieceOf(pieces) ==
    \E chunk \in {0, host.memos, host.memos + 1}, p2 \in {P2_CHUNK_LAST, P2_MORE_DATA},
       pc \in pieces, answer \in BOOLEAN :
        /\ host.memos < MaxPieces
        /\ AfterPiece(main_turn(ctx, ws, "LoadMemo", chunk, p2, pc.bytes, answer),
                      Frame("LoadMemo", chunk, p2, pc.bytes),
                      PreviewSent(chunk, pc), chunk, answer)

LoadPiece == LoadPieceOf(PieceSet)

NextPreview == LoadPiece

SpecPreview == Init /\ [][NextPreview]_vars

---------------------------------------------------------------------------
(* Previews with asset tables *)

\* TAG_ASSET_TABLE with n entries
RecAssetTable(n) == <<TAG_ASSET_TABLE, 1 + 32 * n, n>> \o Rep(7, 32 * n)

\* a piece with n table entries, or with one record that names asset index
AssetPiece(bytes, items, assets, index) ==
    [bytes |-> bytes, items |-> items, declared |-> -1, assets |-> assets, index |-> index]

AssetPieceSet ==
    { AssetPiece(RecTxType(TX_TRANSFER) \o RecAssetTable(1), 0, 1, 0),
      AssetPiece(RecAssetTable(1), 0, 1, 0),
      AssetPiece(RecOutItem(0, 17, 5), 1, 0, 0),
      AssetPiece(RecOutItem(1, 17, 5), 1, 0, 1),
      AssetPiece(RecOutItem(2, 34, 7), 1, 0, 2),
      AssetPiece(RecBurn(1, 5), 0, 0, 1),
      AssetPiece(RecBurn(3, 5), 0, 0, 3) }

LoadAssets == LoadPieceOf(AssetPieceSet)

NextAssets == LoadAssets

SpecAssets == Init /\ [][NextAssets]_vars

---------------------------------------------------------------------------
(* Previews whose OUT_COUNT is a long varint *)

\* a LEB128 encoding of len bytes: len - 1 continuation bytes that carry no
\* bits, then the byte last
VarintEnc(len, last) == Rep(128, len - 1) \o <<last>>

\* a whole preview: its type and the count of its outputs
VarintPreview(t, len, last) == RecTxType(t) \o <<TAG_OUT_COUNT>> \o VarintEnc(len, last)

\* the state after a LoadMemo turn t that carried a whole preview in one chunk,
\* which h describes
AfterWhole(t, f, h, answer) ==
    /\ answer \/ t.ui = "deny"
    /\ ctx' = t.ctx
    /\ ws' = t.ws
    /\ frame' = f
    /\ resp' = Reply(t)
    /\ host' = [h EXCEPT !.memos = IF t.reset THEN 0 ELSE 1,
                         !.denied = t.ui = "deny" \/ (host.denied /\ t.ui # "approve")]
    /\ shown' = IF t.ui = "approve" THEN <<[memo |-> t.ctx.memo[1], ws |-> t.ws]>>
                ELSE <<>>
    /\ att' = IF t.reset THEN <<>> ELSE att

\* LOAD_MEMO chunk 0, final, with a preview that declares its output count in a
\* varint of 1 to MaxVarint bytes
LoadVarint ==
    \E t \in {TX_BURN, TX_TRANSFER, TX_MULTISIG}, len \in 1..MaxVarint,
       last \in {0, 1, 2, 127}, answer \in BOOLEAN :
        AfterWhole(main_turn(ctx, ws, "LoadMemo", 0, P2_CHUNK_LAST,
                             VarintPreview(t, len, last), answer),
                   Frame("LoadMemo", 0, P2_CHUNK_LAST, VarintPreview(t, len, last)),
                   [HostIdle EXCEPT !.varint = len,
                                    !.declared = IF len = 1 THEN last ELSE -1],
                   answer)

NextVarint == LoadVarint

SpecVarint == Init /\ [][NextVarint]_vars

---------------------------------------------------------------------------
(* Properties *)

\* the last frame was a SignTx and its reply carries a signature
Signed == frame.ins = "SignTx" /\ resp.out # <<>>

\* the last frame was a SignTx that ended a signing attempt: the handler
\* returned an error, or it was a final chunk
AttemptEnded == frame.ins = "SignTx" /\ (resp.sw # "Ok" \/ frame.p2 = P2_CHUNK_LAST)

\* the bytes a signature covers
SignedBody == resp.out[2].msg[2]

\* C1: a signature is replied only when the session holds a preview the user
\* approved since the last reset (preview_approved set, the preview stored, and
\* it is the one that was on screen), and preview_approved is raised only by a
\* final LoadMemo chunk whose preview the user approved.
C1_SignatureOnlyAfterApproval ==
    [][ /\ Signed' => /\ ctx.preview_approved
                      /\ ctx.memo # <<>>
                      /\ shown # <<>>
                      /\ shown[1].memo = ctx.memo[1]
        /\ (ctx'.preview_approved /\ ~ctx.preview_approved)
               => /\ frame'.ins = "LoadMemo"
                  /\ frame'.p2 = P2_CHUNK_LAST
                  /\ resp'.ui = "approve"
                  /\ resp'.sw = "Ok"
                  /\ ctx'.memo # <<>>
      ]_vars

\* C1 witness: a signature was replied to a final body chunk
C1_Witness == Signed /\ resp.sw = "Ok" /\ frame.p2 = P2_CHUNK_LAST /\ frame.p1 >= 1

\* C2 as stated: when a transfer with one output (no extra data) is signed, the
\* commitment in the body opens to the preview amount under the blinder the
\* session holds for that output.
C2_CommitmentsOpen ==
    [][ (Signed' /\ ctx.memo # <<>> /\ ctx.memo[1].tx_type = TX_TRANSFER
            /\ Len(ws.outs) = 1 /\ SignedBody'[100] = 0)
        => /\ Len(ctx.verifier.blinders) >= 1
           /\ Slice(SignedBody', 100, 132)
                = PedersenCommit(ws.outs[1].amount, ctx.verifier.blinders[1])
      ]_vars

\* C3 as stated: while preview_approved is set, the outputs and the burn in the
\* workspace are those of the preview the user approved.
C3_WorkspaceIsApproved ==
    ctx.preview_approved =>
        /\ shown # <<>>
        /\ ws.outs = shown[1].ws.outs
        /\ ws.burn = shown[1].ws.burn

\* C4 as stated: a signed transfer names, for its first output, the destination
\* of the first output of the preview.
C4_BodyAgreesWithPreview ==
    (Signed /\ SignedBody[34] = TX_TRANSFER /\ Len(ws.outs) >= 1 /\ Len(SignedBody) >= 99)
        => Slice(SignedBody, 67, 99) = ws.outs[1].dest

\* C5, amended: a SignTx frame that ends an attempt leaves the initial session,
\* so the approval is spent; the SignTx chunk 0 that follows it is refused with
\* MemoRequired, or with TxParsingFail when it has no payload.
C5_ResetAfterAttempt ==
    [][ /\ AttemptEnded' => (ctx' = TxContext_new /\ att' = <<>> /\ shown' = <<>>)
        /\ (AttemptEnded /\ frame'.ins = "SignTx" /\ frame'.p1 = 0)
               => /\ resp'.sw = IF frame'.n = 0 THEN "TxParsingFail" ELSE "MemoRequired"
                  /\ resp'.out = <<>>
      ]_vars

\* C5 as stated: the SignTx chunk 0 that follows an ended attempt returns
\* MemoRequired.
C5_AsStated ==
    [][ /\ AttemptEnded' => ctx' = TxContext_new
        /\ (AttemptEnded /\ frame'.ins = "SignTx" /\ frame'.p1 = 0)
               => (resp'.sw = "MemoRequired" /\ resp'.out = <<>>)
      ]_vars

\* C5 witness: a transfer was signed and the session is back in its initial state
C5_Witness ==
    /\ Signed
    /\ SignedBody[34] = TX_TRANSFER
    /\ ctx = TxContext_new
    /\ ws.outs # <<>>

\* C6, amended: SignTx chunk 0 without an approved preview is refused, with
\* MemoRequired when it has a payload and TxParsingFail when it has none; it
\* starts no stream (the session is the initial one afterwards) and signs nothing.
C6_NoStreamWithoutApproval ==
    [][ (frame'.ins = "SignTx" /\ frame'.p1 = 0 /\ ~ctx.preview_approved)
        => /\ resp'.sw = IF frame'.n = 0 THEN "TxParsingFail" ELSE "MemoRequired"
           /\ resp'.out = <<>>
           /\ ctx' = TxContext_new
           /\ att' = <<>>
      ]_vars

\* C6 as stated: SignTx chunk 0 without an approved preview returns MemoRequired.
C6_AsStated ==
    [][ (frame'.ins = "SignTx" /\ frame'.p1 = 0 /\ ~ctx.preview_approved)
        => (resp'.sw = "MemoRequired" /\ resp'.out = <<>> /\ ctx' = TxContext_new)
      ]_vars

\* C6 witness: a SignTx chunk 0 carrying a path was refused with MemoRequired
\* although the user declined nothing
C6_Witness ==
    /\ frame.ins = "SignTx" /\ frame.p1 = 0 /\ frame.n > 0
    /\ resp.sw = "MemoRequired"
    /\ ~host.denied

\* C7, amended: once the user has declined a preview and has approved none
\* since, every SignTx frame is refused and signs nothing: chunk 0 with
\* MemoRequired, body chunk 1 with MemoInvalid, any other body chunk and any
\* frame without payload with TxParsingFail.
C7_RefusedAfterDeny ==
    (host.denied /\ frame.ins = "SignTx")
        => /\ resp.out = <<>>
           /\ resp.sw = IF frame.n = 0 THEN "TxParsingFail"
                        ELSE IF frame.p1 = 0 THEN "MemoRequired"
                        ELSE IF frame.p1 = 1 THEN "MemoInvalid"
                        ELSE "TxParsingFail"
           /\ ctx = TxContext_new

\* C7 as stated: after the user declined, every SignTx frame that has a payload,
\* chunk 0 or body chunk, returns MemoRequired.
C7_AsStated ==
    (host.denied /\ frame.ins = "SignTx" /\ frame.n > 0)
        => (resp.sw = "MemoRequired" /\ resp.out = <<>>)

\* C7 witness: after the user declined, a body chunk was refused with MemoInvalid
C7_Witness ==
    /\ host.denied
    /\ frame.ins = "SignTx" /\ frame.p1 = 1 /\ frame.n > 0
    /\ resp.sw = "MemoInvalid"

\* the returns of the four checks made while the body is streamed: tx type,
\* transfer count, extra-length varint, commitment
StreamCheckSites == {"tx_parser.rs:91", "tx_parser.rs:118", "tx_parser.rs:217",
                     "commitment.rs:31"}

C9_AtomicFlow ==
    [][ (Signed' /\ att # <<>> /\ ctx.memo # <<>> /\ ctx.memo[1].tx_type = TX_TRANSFER)
        => att[1] = Snapshot(ctx, ws)
      ]_vars

\* the reply when the whole of body b is handled as a single final chunk of a
\* stream started afresh with the session's preview and blinders
Unsplit(c, w, b) ==
    sign_tx_body(sign_tx_first(c, w, <<1, 128, 0, 0, 44>>).ctx, w, 1, FALSE, BodyData[b])

\* C10 as stated: the last chunk of a body streamed in pieces, with nothing
\* interleaved that changed the preview or the blinders, gets the reply the
\* unsplit body gets: the same status, and a signature in both or in neither.
C10_SplitIndependent ==
    [][ ( /\ frame'.ins = "SignTx" /\ frame'.p1 = ctx.chunk_count + 1
          /\ frame'.p2 = P2_CHUNK_LAST /\ frame'.n > 0
          /\ host.body # 0 /\ host.sent + frame'.n = Len(BodyData[host.body])
          /\ att # <<>> /\ att[1] = Snapshot(ctx, ws) )
        => /\ resp'.sw = Unsplit(ctx, ws, host.body).sw
           /\ (resp'.out # <<>>) = (Unsplit(ctx, ws, host.body).out # <<>>)
      ]_vars

\* C11 as stated: the digest signed on the final chunk is the hash of the
\* payloads of the body chunks accepted since the most recent accepted SignTx
\* chunk 0, each once and in arrival order, and of nothing else.
C11_DigestIsConcatenation ==
    [][ Signed' => /\ resp'.out[2].msg[1] = "sha3_512"
                   /\ Len(SignedBody') = Len(host.fed) + frame'.n
                   /\ Slice(SignedBody', 0, Len(host.fed)) = host.fed
      ]_vars

\* C12 as stated: after a LoadMemo, SendBlinders or SignTx frame that returned
\* an error the session is the initial one.
C12_ErrorResets ==
    (frame.ins \in SessionIns /\ resp.sw # "Ok") => ctx = TxContext_new

\* C13 as stated: a SendBlinders frame with a chunk index other than 0 that
\* arrives when no chunk has been received is rejected, and a SignTx body chunk
\* with an unexpected index is rejected and leaves the initial session.
C13_DeviationPoisons ==
    [][ /\ (frame'.ins = "SendBlinders" /\ frame'.p1 # 0 /\ ctx = TxContext_new)
                => resp'.sw # "Ok"
        /\ (frame'.ins = "SignTx" /\ frame'.p1 >= 1 /\ frame'.n > 0
                /\ frame'.p1 # ctx.chunk_count + 1)
                => (resp'.sw # "Ok" /\ ctx' = TxContext_new)
      ]_vars

\* C15 as stated: after LoadMemo chunk 0 the preview buffer holds at most the new
\* chunk, a preview is approved only if this very chunk was, and blinders,
\* verification flags, parser, hasher, path and counters are the initial ones.
C15_FirstChunkClearsAll ==
    [][ (frame'.ins = "LoadMemo" /\ frame'.p1 = 0)
        => /\ Len(ctx'.memo_buffer) <= frame'.n
           /\ ctx'.preview_approved => resp'.ui = "approve"
           /\ ctx'.verifier = CommitmentVerifier_new
           /\ ctx'.parser = TxStreamParser_new
           /\ ctx'.tx_hasher = Sha3_512_new
           /\ ctx'.path = <<>>
           /\ ctx'.total_size = 0
           /\ ctx'.chunk_count = 0
      ]_vars

\* C16 as stated: the workspace is empty after a LoadMemo chunk 0 that is not yet
\* parsed, and after every reset: a signature, a SignTx error, the user's
\* rejection, an instruction outside the session.
C16_WorkspaceCleared ==
    ( \/ (frame.ins = "LoadMemo" /\ frame.p1 = 0 /\ frame.p2 = P2_MORE_DATA)
      \/ Signed
      \/ (frame.ins = "SignTx" /\ resp.sw # "Ok")
      \/ resp.sw = "Deny"
      \/ frame.ins \in {"GetVersion", "GetAppName", "GetPubkey"} )
        => ws = WsEmpty

\* C17 as stated: SignTx chunk 0 is accepted, and a signature replied, only with
\* as many blinders stored as the preview has outputs.
C17_BlindersMatchOutputs ==
    [][ /\ (frame'.ins = "SignTx" /\ frame'.p1 = 0 /\ resp'.sw = "Ok")
                => Len(ctx'.verifier.blinders) = Len(ws'.outs)
        /\ Signed' => Len(ctx.verifier.blinders) = Len(ws.outs)
      ]_vars

\* C18 as stated: a SendBlinders chunk with the final flag whose blinders,
\* counted from the last chunk with P1 = 0, are not as many as the preview has
\* outputs returns TxParsingFail and leaves the initial session.
C18_FinalBlinderCount ==
    [][ (frame'.ins = "SendBlinders" /\ (frame'.p2 \div 128) % 2 = 1
            /\ frame'.n % 32 = 0
            /\ (IF frame'.p1 = 0 THEN 0 ELSE Len(ctx.verifier.blinders)) + frame'.n \div 32
                    # Len(ws.outs))
        => (resp'.sw = "TxParsingFail" /\ ctx' = TxContext_new)
      ]_vars

\* C19 as stated: under an approved BURN preview a signature covers a body of 75
\* bytes whose burn amount is the one of the approved preview, and a final body
\* chunk that is not signed returns a parse error.
C19_BurnSigned ==
    [][ (shown # <<>> /\ shown[1].memo.tx_type = TX_BURN /\ ctx.preview_approved
            /\ frame'.ins = "SignTx" /\ frame'.p1 >= 1 /\ frame'.p2 = P2_CHUNK_LAST)
        => IF Signed'
           THEN /\ Len(SignedBody') = 75
                /\ shown[1].ws.burn # <<>>
                /\ U64FromBe(Slice(SignedBody', 66, 74)) = shown[1].ws.burn[1].amount
           ELSE resp'.sw = "TxParsingFail"
      ]_vars


\* C14 as stated: the k-th chunk after the first is accepted only with index
\* k mod 256, so that index 0 follows index 255
C14_AsStated ==
    [][/\ (frame'.ins = "LoadMemo" /\ host.memos >= 1 /\ resp'.sw = "Ok"
           /\ host'.memos = host.memos + 1)
            => frame'.p1 = host.memos % 256
       /\ (frame'.ins = "SignTx" /\ resp'.sw = "Ok" /\ host'.chunks = host.chunks + 1)
            => frame'.p1 = (host.chunks + 1) % 256]_vars

\* C14: the first chunk has index 0; the k-th chunk after it is accepted if and
\* only if its index is ((k - 1) mod 255) + 1, so that index 1 follows index 255
\* (LoadMemo: k chunks of the preview accepted so far, the first included; SignTx:
\* k - 1 body chunks accepted under an approved preview).  A LoadMemo frame with
\* index 0 is always taken as a first chunk.
C14_Rollover ==
    [][/\ (frame'.ins = "LoadMemo" /\ host.memos >= 1 /\ frame'.p1 # 0)
            => (resp'.sw = "Ok" <=> frame'.p1 = ((host.memos - 1) % 255) + 1)
       /\ (frame'.ins = "LoadMemo" /\ frame'.p1 = 0)
            => resp'.sw = "Ok" /\ ctx'.memo_chunk_count = 1
       /\ (frame'.ins = "LoadMemo" /\ host.memos = 0 /\ frame'.p1 # 0)
            => resp'.sw = "TxParsingFail"
       /\ (frame'.ins = "SignTx" /\ frame'.p1 # 0 /\ shown # <<>>)
            => (resp'.sw = "Ok" <=> frame'.p1 = (host.chunks % 255) + 1)]_vars

\* the 256th body chunk was accepted with index 1, in a session whose 256th
\* LoadMemo chunk after the first was accepted too
C14_Witness ==
    /\ frame.ins = "SignTx" /\ frame.p1 = 1 /\ resp.sw = "Ok"
    /\ host.chunks = 256 /\ host.memos = 257 /\ ctx.memo_chunk_count = 257


\* C20: a final LoadMemo chunk completes a preview of well-formed records with an
\* OUT_COUNT record.  If the number of OUT_ITEM records in the whole preview
\* equals the count declared (by the last OUT_COUNT record) the preview parses
\* and is put before the user; otherwise the reply is MemoInvalid, nothing is
\* displayed and no preview is stored or approved by the frame.  The host's
\* count of the chunks taken agrees with the device's.
C20_OutCountChecked ==
    [][/\ frame'.ins = "LoadMemo" => ctx'.memo_chunk_count = host'.memos
       /\ (frame'.ins = "LoadMemo" /\ frame'.p2 = P2_CHUNK_LAST
           /\ resp'.sw # "TxParsingFail" /\ host'.declared # -1)
            => IF host'.items = host'.declared
               THEN resp'.ui # "none" /\ resp'.sw \in {"Ok", "Deny"}
               ELSE /\ resp'.sw = "MemoInvalid"
                    /\ resp'.ui = "none"
                    /\ ctx'.memo = (IF frame'.p1 = 0 THEN <<>> ELSE ctx.memo)
                    /\ ctx'.preview_approved = (frame'.p1 # 0 /\ ctx.preview_approved)
                    /\ shown' = (IF frame'.p1 = 0 THEN <<>> ELSE shown)]_vars

\* a preview in three chunks that declares two outputs and holds one was refused
C20_Witness ==
    /\ frame.ins = "LoadMemo" /\ frame.p2 = P2_CHUNK_LAST /\ resp.sw = "MemoInvalid"
    /\ host.memos = 3 /\ host.declared = 2 /\ host.items = 1


\* an asset index the table tbl resolves: 0 for the native asset, or an entry
IndexInTable(i, tbl) == i = 0 \/ i <= Len(tbl)

\* C21: after a preview is parsed (it is put before the user) every output's
\* asset_index and the burn descriptor's is 0 or at most the length of the asset
\* table of the workspace; a preview of well-formed records in which an OUT_ITEM
\* or BURN record names an index above the number of entries of all its asset
\* tables is refused with MemoInvalid and not displayed.
C21_AssetIndexInTable ==
    [][/\ (frame'.ins = "LoadMemo" /\ resp'.ui # "none")
            => /\ \A i \in 1..Len(ws'.outs) :
                    IndexInTable(ws'.outs[i].asset_index, ws'.asset_table)
               /\ ws'.burn # <<>> => IndexInTable(ws'.burn[1].asset_index, ws'.asset_table)
               /\ Len(ws'.asset_table) = host'.assets
               /\ host'.index <= host'.assets
       /\ (frame'.ins = "LoadMemo" /\ frame'.p2 = P2_CHUNK_LAST
           /\ resp'.sw # "TxParsingFail" /\ host'.index > host'.assets)
            => resp'.sw = "MemoInvalid" /\ resp'.ui = "none"]_vars

\* a preview with a table of one asset and an output of index 2 was refused
C21_Witness ==
    /\ frame.ins = "LoadMemo" /\ frame.p2 = P2_CHUNK_LAST /\ resp.sw = "MemoInvalid"
    /\ host.assets = 1 /\ host.index = 2 /\ host.memos >= 2


\* C22 as stated, for the preview's reader: a preview whose OUT_COUNT is encoded
\* in more than 9 bytes is refused with a parse failure
C22_LongVarintRejected ==
    [][(frame'.ins = "LoadMemo" /\ host'.varint > 9)
            => resp'.ui = "none" /\ resp'.sw \in {"TxParsingFail", "MemoInvalid"}]_vars


\* the payloads the hasher has absorbed: those fed since the last accepted
\* SignTx chunk 0 or, without one, since the last reset
Absorbed == IF host.fed # <<>> /\ host.fed[1] = -1 THEN Tail(host.fed) ELSE host.fed

C23_DisplayThenKey ==
    [][(frame'.ins = "GetPubkey" /\ frame'.p1 = 1 /\ frame'.n = 1 + 4 * Len(host'.path))
       => /\ resp'.ui \in {"approve", "deny"}
          /\ resp'.ui = "approve"
                => resp'.sw = "Ok"
                   /\ resp'.out = <<32>> \o derived_public_key(host'.path)
          /\ resp'.ui = "deny" => resp'.sw = "Deny" /\ resp'.out = <<>>]_vars

---------------------------------------------------------------------------
(* Address encoding as a function of the key and the network *)

\* a key whose bytes are b, but a at position k
KeyWith(k, a, b) == [i \in 1..32 |-> IF i = k THEN a ELSE b]

\* the key of test_address_generation (debug_keys.rs), little-endian
KeyVector ==
    <<140, 146, 64, 180, 86, 169, 230, 220, 101, 195, 119, 161, 4, 141, 116, 95,
      148, 160, 140, 219, 127, 68, 203, 205, 123, 70, 243, 64, 72, 135, 17, 52>>

\* the keys encoded: keys that differ in one byte at either end or in the
\* middle, and the test vector
AddressKeySet ==
    {KeyWith(k, a, b) : k \in {1, 2, 16, 31, 32}, a \in {0, 1, 128, 255}, b \in {0, 85, 255}}
    \cup {KeyVector}

\* the caller holds one of the keys; nothing else has happened
InitAddress ==
    /\ ctx = TxContext_new
    /\ ws = WsEmpty
    /\ frame = NoFrame
    /\ resp = NoResp
    /\ shown = <<>>
    /\ att = <<>>
    /\ \E pk_le \in AddressKeySet : host = [HostIdle EXCEPT !.fed = pk_le]

\* the reply that carries the result r of Address::to_bytes
AddressReply(r) ==
    [sw |-> IF r.ok THEN "Ok" ELSE "Deny", site |-> "", out |-> r.bytes, ui |-> "none"]

\* Address::new(mainnet, key).to_bytes() for the key the caller holds and a
\* network it chooses
EncodeAddress ==
    \E mainnet \in BOOLEAN :
        /\ frame = NoFrame
        /\ frame' = Frame("Address", IF mainnet THEN 1 ELSE 0, 0, host.fed)
        /\ resp' = AddressReply(Address_to_bytes(mainnet,
                                                 CompressedRistretto_from_le_bytes(host.fed)))
        /\ UNCHANGED <<ctx, ws, shown, att, host>>

NextAddress == EncodeAddress

SpecAddress == InitAddress /\ [][NextAddress]_vars

\* the 5-bit value of a symbol of the alphabet, 32 for any other byte
CharsetValue(c) ==
    IF \E v \in 0..31 : CHARSET[v + 1] = c THEN CHOOSE v \in 0..31 : CHARSET[v + 1] = c ELSE 32

\* the 5-bit values of the symbols of addr behind the separator
AddressValues(addr) == [i \in 1..(Len(addr) - 4) |-> CharsetValue(addr[i + 4])]

\* the checksum of addr verifies: the polymod of the prefix, the data and the
\* checksum is 1
ChecksumVerifies(addr) ==
    polymod_steps(1, hrp_values(Slice(addr, 0, 3)) \o AddressValues(addr),
                  1, 7 + Len(addr) - 4) = 1

\* the key and the network read back from addr: the 53 data symbols regrouped
\* into bytes
AddressDecoded(addr) ==
    [mainnet |-> Slice(addr, 0, 3) = PREFIX_ADDRESS,
     bytes |-> convert_bits_fixed(Slice(AddressValues(addr), 0, 53), 5, 8, FALSE, 64).out]

\* C27: an encoded address is the prefix xel or xet, ':', 53 data symbols and 6
\* checksum symbols of the alphabet; its checksum verifies under polymod; and the
\* key and the network are read back from it, so two different (key, network)
\* pairs never have the same address
C27_AddressLossless ==
    frame.ins = "Address"
    => /\ resp.sw = "Ok"
       /\ Len(resp.out) = 4 + 53 + 6
       /\ Slice(resp.out, 0, 3) = (IF frame.p1 = 1 THEN PREFIX_ADDRESS ELSE TESTNET_PREFIX_ADDRESS)
       /\ resp.out[4] = SEPARATOR
       /\ \A i \in 5..63 : CharsetValue(resp.out[i]) < 32
       /\ ChecksumVerifies(resp.out)
       /\ AddressDecoded(resp.out) = [mainnet |-> frame.p1 = 1, bytes |-> host.fed \o <<0>>]

\* the test vector's testnet address has been encoded
C27_Witness ==
    /\ frame.ins = "Address"
    /\ frame.p1 = 0
    /\ host.fed = KeyVector
    /\ Slice(resp.out, 0, 12) = <<120, 101, 116, 58, 51, 106, 102, 121, 112, 100, 122, 107>>
    /\ Slice(resp.out, 55, 63) = <<113, 113, 113, 57, 122, 122, 118, 107>>

---------------------------------------------------------------------------
(* Transfers of two outputs, in every version, cut anywhere *)

TailOuts == <<OutDesc(17, ExtraNone, 5, 1), OutDesc(34, ExtraNone, 7, 2)>>

\* the preview of the two outputs
MemoTwo ==
    RecTxType(TX_TRANSFER) \o RecFee(25) \o RecNonce(7)
        \o RecOutItem(0, 17, 5) \o RecOutItem(0, 34, 7)

\* the bodies: the two outputs under version 0, 1 and 2
TailBodies == [v \in 1..3 |-> BodyBytes(BodyDesc(v - 1, TX_TRANSFER, TailOuts, 0, 0))]

\* where the commitment of output j of body b ends: the header, the count, the
\* outputs before it, and its asset, destination, extra-data flag and commitment
CommitEnd(b, j) == 35 + (j - 1) * Len(TransferBytes(TailOuts[1], b - 1)) + 97

\* where the host may cut body b: at the end of a commitment, MaxTailStep bytes
\* further, and as far as one frame reaches
MaxTailStep == 130
TailCuts(b) ==
    {CommitEnd(b, 1), CommitEnd(b, 1) + MaxTailStep, CommitEnd(b, 2),
     CommitEnd(b, 2) + MaxTailStep, host.sent + 255, Len(TailBodies[b])}

\* LOAD_MEMO: the preview of the two outputs in one chunk
TailPreview ==
    \E answer \in BOOLEAN :
        /\ host.memos = 0
        /\ AfterMemo(main_turn(ctx, ws, "LoadMemo", 0, P2_CHUNK_LAST, MemoTwo, answer),
                     Frame("LoadMemo", 0, P2_CHUNK_LAST, MemoTwo),
                     [host EXCEPT !.memos = @ + 1], 0, answer)

\* SEND_BLINDERS: the blinders of both outputs in one frame
TailBlinders ==
    /\ shown # <<>>
    /\ ctx.verifier.blinders = <<>>
    /\ After(main_turn(ctx, ws, "SendBlinders", 0, P2_CHUNK_LAST,
                       BlinderWire(1) \o BlinderWire(2), FALSE),
             Frame("SendBlinders", 0, P2_CHUNK_LAST, BlinderWire(1) \o BlinderWire(2)),
             host, shown, att)

\* SIGN_TX chunk 0 with a valid path
TailStart ==
    /\ host.starts < MaxStarts
    /\ AfterStart(main_turn(ctx, ws, "SignTx", 0, P2_MORE_DATA, <<1, 128, 0, 0, 44>>, FALSE),
                  Frame("SignTx", 0, P2_MORE_DATA, <<1, 128, 0, 0, 44>>),
                  [host EXCEPT !.starts = @ + 1, !.body = 0, !.sent = 0, !.fed = <<>>,
                               !.path = Bip32Path_from(<<1, 128, 0, 0, 44>>)])

\* SIGN_TX chunks 1..: the next piece of the body, up to one of the cuts; the
\* piece that reaches the end of the body is the final one
TailBody ==
    \E b \in (IF host.body = 0 THEN 1..3 ELSE {host.body}) :
      \E cut \in TailCuts(b) :
        /\ host.starts > 0
        /\ cut > host.sent
        /\ cut <= Len(TailBodies[b])
        /\ cut - host.sent <= 255
        /\ After(main_turn(ctx, ws, "SignTx", ctx.chunk_count + 1,
                           IF cut = Len(TailBodies[b]) THEN P2_CHUNK_LAST ELSE P2_MORE_DATA,
                           Slice(TailBodies[b], host.sent, cut), FALSE),
                 Frame("SignTx", ctx.chunk_count + 1,
                       IF cut = Len(TailBodies[b]) THEN P2_CHUNK_LAST ELSE P2_MORE_DATA,
                       Slice(TailBodies[b], host.sent, cut)),
                 [host EXCEPT !.body = b, !.sent = cut, !.chunks = @ + 1,
                              !.fed = @ \o Slice(TailBodies[b], host.sent, cut)],
                 shown, att)

NextTail == TailPreview \/ TailBlinders \/ TailStart \/ TailBody

SpecTail == Init /\ [][NextTail]_vars

\* the skip the parser still owes when the host has sent its body up to a place
\* within tail bytes of the end of a commitment.  Behind the last output the
\* parser reads nothing more, so its skip is looked at where the commitment ends.
TailSkipIs(tail) ==
    \A j \in 1..2 :
        (host.body # 0 /\ host.sent >= CommitEnd(host.body, j)
                       /\ host.sent <= CommitEnd(host.body, j) + tail
                       /\ (j < 2 \/ host.sent = CommitEnd(host.body, j)))
        => ctx.parser.pending_tail_skip = CommitEnd(host.body, j) + tail - host.sent

\* C30 as stated: behind the commitment of each output the parser skips 128
\* bytes in version 0 and 160 bytes otherwise
C30_TailAsStated ==
    (host.body = 1 => TailSkipIs(128)) /\ (host.body > 1 => TailSkipIs(160))

\* C30, amended: behind the commitment of each output the parser skips the two
\* 32-byte handles and the proof, 192 bytes in version 0 and 224 bytes otherwise,
\* and carries what is left of the skip from chunk to chunk; the next output is
\* read behind it, so the body of two outputs is signed at its end
C30_TailSkip ==
    /\ host.body = 1 => TailSkipIs(192)
    /\ host.body > 1 => TailSkipIs(224)
    /\ (frame.ins = "SignTx" /\ frame.p2 = P2_CHUNK_LAST /\ frame.n > 0
        /\ att # <<>> /\ Len(att[1].blinders) = 2)
       => Signed

\* a version-0 body of two outputs has been signed after four pieces: the skip
\* behind the first commitment was carried into the next piece
C30_Witness ==
    /\ Signed
    /\ frame.p1 = 4
    /\ SignedBody = TailBodies[1]
    /\ host.fed = <<-1>>
    /\ frame.n = Len(TailBodies[1]) - (CommitEnd(1, 2) + MaxTailStep)

\* C28 as stated, for a session in which no LoadMemo chunk has been accepted yet
\* (its only LoadMemo frame was answered with an error): there is no accepted
\* index for a chunk n > 0 to follow, so LoadMemo answers it TxParsingFail and
\* neither stores it nor counts it
C28_SuccessorOfAccepted ==
    [][(frame.ins = "LoadMemo" /\ resp.sw # "Ok" /\ host.memos = 1
        /\ frame'.ins = "LoadMemo" /\ frame'.p1 > 0)
       => /\ resp'.sw = "TxParsingFail"
          /\ ctx'.memo_buffer = ctx.memo_buffer
          /\ ctx'.memo_chunk_count = ctx.memo_chunk_count]_vars

---------------------------------------------------------------------------
(* Bodies that end early, under previews of every type *)

\* a transfer preview without outputs
MemoNoOutputs == RecTxType(TX_TRANSFER) \o RecFee(25) \o RecNonce(7)

ShortPreviewSet == {MemoTransfer, MemoBurn, MemoMultisig, MemoNoOutputs}

\* the first bytes of a body of each type; the transfer announces one output
ShortBodies ==
    << BodyHeader(1, TX_TRANSFER) \o <<1>> \o Rep(0, 32),
       BodyHeader(1, TX_TRANSFER) \o <<0>> \o Rep(0, 32),
       BodyHeader(1, TX_BURN) \o Rep(0, 32),
       BodyHeader(1, TX_MULTISIG) \o Rep(3, 32) >>

\* where the host ends the body: inside the source key, before and behind the
\* type byte, behind the next byte
ShortLenSet == {1, 33, 34, 35}

\* LOAD_MEMO: a whole preview in one chunk
ShortPreview ==
    \E data \in ShortPreviewSet, answer \in BOOLEAN :
        /\ host.memos = 0
        /\ AfterMemo(main_turn(ctx, ws, "LoadMemo", 0, P2_CHUNK_LAST, data, answer),
                     Frame("LoadMemo", 0, P2_CHUNK_LAST, data),
                     [host EXCEPT !.memos = @ + 1], 0, answer)

\* SIGN_TX chunk 0 with a valid path
ShortStart ==
    /\ host.starts < MaxStarts
    /\ AfterStart(main_turn(ctx, ws, "SignTx", 0, P2_MORE_DATA, <<1, 128, 0, 0, 44>>, FALSE),
                  Frame("SignTx", 0, P2_MORE_DATA, <<1, 128, 0, 0, 44>>),
                  [host EXCEPT !.starts = @ + 1, !.body = 0, !.sent = 0, !.fed = <<>>,
                               !.path = Bip32Path_from(<<1, 128, 0, 0, 44>>)])

\* SIGN_TX chunks 1..: the body up to one of the lengths of ShortLenSet, in one
\* or two pieces; the piece that reaches that length may be the final one
ShortBody ==
    \E b \in (IF host.body = 0 THEN 1..Len(ShortBodies) ELSE {host.body}),
       cut \in ShortLenSet, p2 \in {P2_CHUNK_LAST, P2_MORE_DATA} :
        /\ host.starts > 0
        /\ host.chunks < 2
        /\ cut > host.sent
        /\ After(main_turn(ctx, ws, "SignTx", ctx.chunk_count + 1, p2,
                           Slice(ShortBodies[b], host.sent, cut), FALSE),
                 Frame("SignTx", ctx.chunk_count + 1, p2, Slice(ShortBodies[b], host.sent, cut)),
                 [host EXCEPT !.body = b, !.sent = cut, !.chunks = @ + 1,
                              !.fed = @ \o Slice(ShortBodies[b], host.sent, cut)],
                 shown, att)

NextShort == ShortPreview \/ ShortStart \/ ShortBody

SpecShort == Init /\ [][NextShort]_vars

\* the same sessions with requests for the public key in between
NextKey == GetPubkey \/ ShortPreview \/ ShortStart \/ ShortBody

SpecKey == Init /\ [][NextKey]_vars

\* C29 as stated: the body a signature covers holds the type byte at offset 33,
\* equal to the type of the approved preview, and under a TRANSFER preview the
\* count byte behind it, equal to the number of outputs of the preview
C29_HeaderReadBeforeSigning ==
    [][Signed'
       => /\ ctx.memo # <<>>
          /\ Len(SignedBody') >= 34
          /\ SignedBody'[34] = ctx.memo[1].tx_type
          /\ ctx.memo[1].tx_type = TX_TRANSFER
                => Len(SignedBody') >= 35 /\ SignedBody'[35] = Len(ws.outs)]_vars

---------------------------------------------------------------------------
(* Scalars, crypto/scalar.rs, on a small group *)

\* The group order l is a prime near 2^252 and a scalar is encoded on 32 bytes, so
\* sixteen encodings, 0, l, ..., 15 l, are zero as residues.  Arithmetic on 32
\* bytes is out of reach here: the model encodes a scalar on one byte and takes
\* the prime 17 for l, which leaves the same sixteen multiples 0, 17, ..., 255.
ScalarL == 17
ScalarL_MINUS_2 == ScalarL - 2
ScalarSet == 0..255

\* is_zero: every byte of the encoding is 0
is_zero(scalar) == scalar = 0

\* cx_math_powm_no_throw: a^e mod m
RECURSIVE cx_math_powm(_, _, _)
cx_math_powm(a, e, m) == IF e = 0 THEN 1 % m ELSE (a * cx_math_powm(a, e - 1, m)) % m

\* the result of a scalar or point operation
ScalarRes(ok, sw, val) == [ok |-> ok, sw |-> sw, val |-> val]

\* scalar_invert: s^(l-2) mod l for every encoding but the all-zero one
scalar_invert(scalar) ==
    IF is_zero(scalar) THEN ScalarRes(FALSE, "KeyDeriveFail", 0)
    ELSE ScalarRes(TRUE, "Ok", cx_math_powm(scalar, ScalarL_MINUS_2, ScalarL))

\* xelis_public_from_private: s^(-1) * H, the point named by its multiple of H
xelis_public_from_private(private_key) ==
    IF is_zero(private_key) THEN ScalarRes(FALSE, "KeyDeriveFail", 0)
    ELSE scalar_invert(private_key)

\* schnorr_sign, lines 91-112, for the challenge e and the nonce k:
\* s = x^(-1) * e + k, and the reply holds s and e
schnorr_sign_se(private_key_be, e, k) ==
    IF is_zero(private_key_be) \/ is_zero(k) THEN ScalarRes(FALSE, "TxSignFail", <<>>)
    ELSE IF ~scalar_invert(private_key_be).ok
    THEN ScalarRes(FALSE, scalar_invert(private_key_be).sw, <<>>)
    ELSE ScalarRes(TRUE, "Ok",
                   <<(k + ((e * scalar_invert(private_key_be).val) % ScalarL)) % ScalarL, e>>)

\* the caller holds the encoding of a secret scalar; nothing else has happened
InitScalar ==
    /\ ctx = TxContext_new
    /\ ws = WsEmpty
    /\ frame = NoFrame
    /\ resp = NoResp
    /\ shown = <<>>
    /\ att = <<>>
    /\ \E s \in ScalarSet : host = [HostIdle EXCEPT !.fed = <<s>>]

\* the reply that carries the result r
ScalarReply(r, out) == [sw |-> r.sw, site |-> "", out |-> out, ui |-> "none"]

\* scalar_invert on the scalar held
Invert ==
    /\ frame = NoFrame
    /\ frame' = Frame("scalar_invert", 0, 0, host.fed)
    /\ resp' = ScalarReply(scalar_invert(host.fed[1]),
                           IF scalar_invert(host.fed[1]).ok
                           THEN <<scalar_invert(host.fed[1]).val>> ELSE <<>>)
    /\ UNCHANGED <<ctx, ws, shown, att, host>>

\* xelis_public_from_private on the scalar held
DeriveKey ==
    /\ frame = NoFrame
    /\ frame' = Frame("xelis_public_from_private", 0, 0, host.fed)
    /\ resp' = ScalarReply(xelis_public_from_private(host.fed[1]),
                           IF xelis_public_from_private(host.fed[1]).ok
                           THEN <<xelis_public_from_private(host.fed[1]).val>> ELSE <<>>)
    /\ UNCHANGED <<ctx, ws, shown, att, host>>

\* schnorr_sign with the scalar held, for a challenge and a nonce
SignWithScalar ==
    \E e \in {0, 1, 5}, k \in {1, 16} :
        /\ frame = NoFrame
        /\ frame' = Frame("schnorr_sign", e, k, host.fed)
        /\ resp' = ScalarReply(schnorr_sign_se(host.fed[1], e, k),
                               schnorr_sign_se(host.fed[1], e, k).val)
        /\ UNCHANGED <<ctx, ws, shown, att, host>>

NextScalar == Invert \/ DeriveKey \/ SignWithScalar

SpecScalar == InitScalar /\ [][NextScalar]_vars

\* C26 as stated: scalar_invert fails when the scalar is zero as a residue and
\* returns its inverse otherwise; signing and key derivation fail for a scalar
\* that is zero as a residue
C26_InverseOrFailure ==
    /\ frame.ins = "scalar_invert"
          => IF host.fed[1] % ScalarL = 0 THEN resp.sw # "Ok"
             ELSE resp.sw = "Ok" /\ (host.fed[1] * resp.out[1]) % ScalarL = 1
    /\ (frame.ins \in {"schnorr_sign", "xelis_public_from_private"}
        /\ host.fed[1] % ScalarL = 0)
          => resp.sw # "Ok"


\* ---------------------------------------------------------------------------
\* Ristretto points, crypto/ristretto.rs.  The field is scaled down from
\* 2^255 - 19 to a prime that is 5 modulo 8 as well, so that the exponent
\* (q - 5) / 8, the square root of -1 and the sign rule keep their roles; an
\* encoding has one bit more than the field, as the 32-byte encoding has.
\* ---------------------------------------------------------------------------
ED25519_FIELD_SIZE == 61
ED25519_POW225 == (ED25519_FIELD_SIZE - 5) \div 8
EDWARDS_D == 18
FE25519_SQRTM1 == 11
ED25519_INVSQRTAMD == 4
\* the top bit of an encoding, 0x80 of its first byte
HIGH_BIT == 64
CompressedSet == 0..(2 * HIGH_BIT - 1)

fe25519_mul(f, g) == (f * g) % ED25519_FIELD_SIZE
fe25519_add(f, g) == (f + g) % ED25519_FIELD_SIZE
fe25519_sub(f, g) ==
    ((f % ED25519_FIELD_SIZE) + ED25519_FIELD_SIZE - (g % ED25519_FIELD_SIZE))
        % ED25519_FIELD_SIZE
fe25519_sq(f) == fe25519_mul(f, f)
fe25519_pow22523(z) == cx_math_powm(z, ED25519_POW225, ED25519_FIELD_SIZE)
fe25519_is_zero(f) == f = 0
\* the lowest bit of the element
fe25519_is_negative(f) == f % 2 = 1
fe25519_neg(f) == fe25519_sub(ED25519_FIELD_SIZE, f)
fe25519_conditional_negate(f, negate) == IF negate THEN fe25519_neg(f) ELSE f
fe25519_one == 1

\* ristretto255_sqrt_ratio_m1, lines 409-429: x = u v^3 (u v^7)^((q-5)/8)
sqrt_ratio_candidate(u, v3, v) ==
    fe25519_mul(
        fe25519_mul(
            fe25519_pow22523(fe25519_mul(fe25519_mul(fe25519_sq(v3), u), v)),
            v3),
        u)

\* lines 431-459: the three root checks, the choice of the root and its sign
sqrt_ratio_select(x, vxx, u) ==
    [ok |-> \/ fe25519_is_zero(fe25519_sub(vxx, u))
            \/ fe25519_is_zero(fe25519_add(vxx, u))
            \/ fe25519_is_zero(fe25519_add(vxx, fe25519_mul(u, FE25519_SQRTM1))),
     was_square |-> fe25519_is_zero(fe25519_sub(vxx, u)),
     x |-> IF \/ fe25519_is_zero(fe25519_add(vxx, u))
              \/ fe25519_is_zero(fe25519_add(vxx, fe25519_mul(u, FE25519_SQRTM1)))
           THEN fe25519_conditional_negate(
                    fe25519_mul(x, FE25519_SQRTM1),
                    fe25519_is_negative(fe25519_mul(x, FE25519_SQRTM1)))
           ELSE fe25519_conditional_negate(x, fe25519_is_negative(x))]

sqrt_ratio_checked(x, u, v) == sqrt_ratio_select(x, fe25519_mul(fe25519_sq(x), v), u)

ristretto255_sqrt_ratio_m1(u, v) ==
    sqrt_ratio_checked(sqrt_ratio_candidate(u, fe25519_mul(fe25519_sq(v), v), v), u, v)

RistrettoPoint(x, y, z, t) == [x |-> x, y |-> y, z |-> z, t |-> t]

\* decompress, lines 276-285: t = x y, refused when t is negative or y is zero
decompress_point(x, y) ==
    IF fe25519_is_negative(fe25519_mul(x, y)) \/ fe25519_is_zero(y)
    THEN ScalarRes(FALSE, "InvalidCompressedRistretto", <<>>)
    ELSE ScalarRes(TRUE, "Ok", RistrettoPoint(x, y, fe25519_one, fe25519_mul(x, y)))

\* lines 251-274: dx = i u2, dy = i dx v, x = |2 s dx|, y = u1 dy
decompress_xy(s, u1, v, i, dx) ==
    decompress_point(
        fe25519_conditional_negate(
            fe25519_mul(fe25519_add(s, s), dx),
            fe25519_is_negative(fe25519_mul(fe25519_add(s, s), dx))),
        fe25519_mul(u1, fe25519_mul(fe25519_mul(i, dx), v)))

\* lines 244-252: the inverse square root of v u2^2
decompress_root(s, u1, u2, v, r) ==
    IF ~r.ok THEN ScalarRes(FALSE, "InvalidCompressedRistretto", <<>>)
    ELSE decompress_xy(s, u1, v, r.x, fe25519_mul(r.x, u2))

\* lines 232-246: v = -d u1^2 - u2^2
decompress_v(s, u1, u2, v) ==
    decompress_root(s, u1, u2, v,
                    ristretto255_sqrt_ratio_m1(fe25519_one, fe25519_mul(v, fe25519_sq(u2))))

\* lines 222-229: u1 = 1 - s^2, u2 = 1 + s^2
decompress_u(s, u1, u2) ==
    decompress_v(s, u1, u2,
                 fe25519_sub(fe25519_mul(fe25519_neg(EDWARDS_D), fe25519_sq(u1)),
                             fe25519_sq(u2)))

\* CompressedRistretto::decompress: only the top bit of the encoding is tested
decompress(c) ==
    IF c \div HIGH_BIT # 0 THEN ScalarRes(FALSE, "InvalidCompressedRistretto", <<>>)
    ELSE decompress_u(c % HIGH_BIT,
                      fe25519_sub(fe25519_one, fe25519_sq(c % HIGH_BIT)),
                      fe25519_add(fe25519_one, fe25519_sq(c % HIGH_BIT)))

\* compress, lines 371-391: negate y_ when x_ z_inv is negative, s = |(Z - y_) den_inv|
compress_s(p, x_, y_, den_inv, z_inv) ==
    fe25519_conditional_negate(
        fe25519_mul(
            fe25519_sub(p.z, fe25519_conditional_negate(
                                 y_, fe25519_is_negative(fe25519_mul(x_, z_inv)))),
            den_inv),
        fe25519_is_negative(
            fe25519_mul(
                fe25519_sub(p.z, fe25519_conditional_negate(
                                     y_, fe25519_is_negative(fe25519_mul(x_, z_inv)))),
                den_inv)))

\* lines 340-369: the rotation by sqrt(-1) when T z_inv is negative
compress_rotate(p, den1, den2, z_inv) ==
    IF fe25519_is_negative(fe25519_mul(p.t, z_inv))
    THEN compress_s(p, fe25519_mul(p.y, FE25519_SQRTM1), fe25519_mul(p.x, FE25519_SQRTM1),
                    fe25519_mul(den1, ED25519_INVSQRTAMD), z_inv)
    ELSE compress_s(p, p.x, p.y, den2, z_inv)

\* lines 330-342: den1, den2 and z_inv = den1 den2 T
compress_den(p, den1, den2) ==
    compress_rotate(p, den1, den2, fe25519_mul(fe25519_mul(den1, den2), p.t))

\* lines 321-334: the inverse square root of u1 u2^2
compress_root(p, u1, u2, r) ==
    IF ~r.ok THEN ScalarRes(FALSE, "TxSignFail", 0)
    ELSE ScalarRes(TRUE, "Ok",
                   compress_den(p, fe25519_mul(r.x, u1), fe25519_mul(r.x, u2)))

compress_u(p, u1, u2) ==
    compress_root(p, u1, u2,
                  ristretto255_sqrt_ratio_m1(fe25519_one, fe25519_mul(u1, fe25519_sq(u2))))

\* RistrettoPoint::compress: u1 = (Z + Y)(Z - Y), u2 = X Y
compress(p) ==
    compress_u(p, fe25519_mul(fe25519_add(p.z, p.y), fe25519_sub(p.z, p.y)),
               fe25519_mul(p.x, p.y))

\* the caller holds an encoding; nothing else has happened
InitPoint ==
    /\ ctx = TxContext_new
    /\ ws = WsEmpty
    /\ frame = NoFrame
    /\ resp = NoResp
    /\ shown = <<>>
    /\ att = <<>>
    /\ \E c \in CompressedSet : host = [HostIdle EXCEPT !.fed = <<c>>]

\* decompress on the encoding held
Decompress ==
    /\ frame = NoFrame
    /\ frame' = Frame("decompress", 0, 0, host.fed)
    /\ resp' = ScalarReply(decompress(host.fed[1]), <<decompress(host.fed[1]).val>>)
    /\ UNCHANGED <<ctx, ws, shown, att, host>>

\* compress on the point that decompress returned
Compress ==
    /\ frame.ins = "decompress"
    /\ resp.sw = "Ok"
    /\ frame' = Frame("compress", 0, 0, resp.out)
    /\ resp' = ScalarReply(compress(resp.out[1]), <<compress(resp.out[1]).val>>)
    /\ UNCHANGED <<ctx, ws, shown, att, host>>

NextPoint == Decompress \/ Compress

SpecPoint == InitPoint /\ [][NextPoint]_vars

\* C25 as stated: decompress refuses every encoding whose high bit is set, and
\* compressing the point of an accepted encoding returns that encoding
C25_RoundTrip ==
    /\ (frame.ins = "decompress" /\ host.fed[1] >= HIGH_BIT) => resp.sw # "Ok"
    /\ frame.ins = "compress" => (resp.sw = "Ok" /\ resp.out[1] = host.fed[1])

---------------------------------------------------------------------------
(* Burns: the amount of the body in either byte order, cut anywhere *)

\* the amount bytes of a burn body: 5 big-endian, 5 little-endian, 9 big-endian,
\* and a value that reads the same in both orders
BurnAmounts == <<U64(5), LeU64(5), U64(9), <<5, 0, 0, 0, 0, 0, 0, 5>>>>

\* a burn body: header, asset, amount, and the byte that makes 75
BurnBodies ==
    [b \in 1..Len(BurnAmounts) |->
        BodyHeader(1, TX_BURN) \o Rep(0, 32) \o BurnAmounts[b] \o <<0>>]

\* the previews: a burn of 5, and a burn of the value that reads the same
MemoBurnSame ==
    RecTxType(TX_BURN) \o RecFee(25) \o RecNonce(7)
        \o <<TAG_BURN, 10, 0>> \o BurnAmounts[4] \o <<0>>

\* where the host may cut a burn body
BurnCuts == {20, 34, 50, 66, 70, 74, 75}

\* where the amount of a burn body ends
BurnEnd == Len(BodyHeader(1, TX_BURN)) + BURN_PAYLOAD_SIZE

\* LOAD_MEMO: a burn preview in one chunk
BurnPreview ==
    \E data \in {MemoBurn, MemoBurnSame}, answer \in BOOLEAN :
        /\ host.memos = 0
        /\ AfterMemo(main_turn(ctx, ws, "LoadMemo", 0, P2_CHUNK_LAST, data, answer),
                     Frame("LoadMemo", 0, P2_CHUNK_LAST, data),
                     [host EXCEPT !.memos = @ + 1], 0, answer)

\* SIGN_TX chunks 1..: the next piece of a burn body; the piece that reaches the
\* end of the body is the final one
BurnBody ==
    \E b \in (IF host.body = 0 THEN 1..Len(BurnAmounts) ELSE {host.body}), cut \in BurnCuts :
        /\ host.starts > 0
        /\ host.chunks < MaxBodyChunks
        /\ cut > host.sent
        /\ After(main_turn(ctx, ws, "SignTx", ctx.chunk_count + 1,
                           IF cut = 75 THEN P2_CHUNK_LAST ELSE P2_MORE_DATA,
                           Slice(BurnBodies[b], host.sent, cut), FALSE),
                 Frame("SignTx", ctx.chunk_count + 1,
                       IF cut = 75 THEN P2_CHUNK_LAST ELSE P2_MORE_DATA,
                       Slice(BurnBodies[b], host.sent, cut)),
                 [host EXCEPT !.body = b, !.sent = cut, !.chunks = @ + 1,
                              !.fed = @ \o Slice(BurnBodies[b], host.sent, cut)],
                 shown, att)

NextBurn == BurnPreview \/ ShortStart \/ BurnBody

SpecBurn == Init /\ [][NextBurn]_vars

\* the body chunk that brings the last byte of the amount: an earlier chunk of
\* the same body was accepted under an approved burn preview, and this one
\* reaches the end of the amount
BurnAmountArrives ==
    /\ frame'.ins = "SignTx" /\ frame'.p1 >= 1
    /\ host.body # 0 /\ host.sent < BurnEnd /\ host.sent + frame'.n >= BurnEnd
    /\ ctx.memo # <<>> /\ ctx.memo[1].tx_type = TX_BURN /\ ws.burn # <<>>

\* C31 as stated: the chunk that completes the 40-byte burn payload is accepted
\* exactly when the little-endian value of its last 8 bytes is the burn amount of
\* the preview
C31_BurnAmountLittleEndian ==
    [][BurnAmountArrives
       => (resp'.sw = "Ok"
           <=> U64FromLe(BurnAmounts[host.body]) = ws.burn[1].amount)]_vars

\* C31, amended: the chunk that completes the 40-byte burn payload is accepted
\* exactly when the big-endian value of bytes 32..39 of the payload is the burn
\* amount of the preview, and is answered TxParsingFail otherwise
C31_BurnAmountBigEndian ==
    [][BurnAmountArrives
       => IF U64FromBe(Slice(BurnBodies[host.body], 66, 74)) = ws.burn[1].amount
          THEN resp'.sw = "Ok"
          ELSE resp'.sw = "TxParsingFail" /\ resp'.site = "tx_parser.rs:145"]_vars

\* the amount 5 sent big-endian under the preview of 5 was accepted with the
\* chunk that completed the payload
C31_Witness ==
    /\ frame.ins = "SignTx" /\ resp.sw = "Ok"
    /\ host.body = 1 /\ host.sent = BurnEnd /\ host.chunks >= 2
    /\ ctx.parser.burn_parsed
    /\ ws.burn # <<>> /\ ws.burn[1].amount = U64(5)
    /\ Slice(ctx.parser.partial_buffer, 32, 40) = U64(5)

---------------------------------------------------------------------------
(* The scratch buffer of the stream parser: extra data, previews in between, both builds *)

MaxScratchMemos == 3
MaxScratchChunks == 4

\* extra data of three bytes, and of 300 bytes: longer than the scratch buffer
ExtraThree == <<1, 3, 7, 7, 7>>
ExtraLong == <<1, 172, 2>> \o Rep(7, 300)

\* the bodies: one output without extra data, with three bytes, with 300 bytes and
\* with a length that does not end, and a burn
ScratchBodies ==
    << BodyData[1],
       BodyBytes(BodyDesc(1, TX_TRANSFER, <<OutDesc(17, ExtraThree, 5, 1)>>, 0, 0)),
       BodyBytes(BodyDesc(1, TX_TRANSFER, <<OutDesc(17, ExtraLong, 5, 1)>>, 0, 0)),
       BodyData[4],
       BodyData[5] >>

\* where the host may cut a body: in the header, in the 65 bytes before the extra
\* data, in the length, in the extra data, in the commitment, and as far as one
\* frame reaches
ScratchCuts(b) ==
    {34, 60, 100, 101, 102, 110, 120, 135, 200, host.sent + 255, Len(ScratchBodies[b])}

InitScratch ==
    /\ ctx = TxContext_new
    /\ ws = WsEmpty
    /\ frame = NoFrame
    /\ resp = NoResp
    /\ shown = <<>>
    /\ att = <<>>
    /\ host \in {[HostIdle EXCEPT !.overflow_checks = oc] : oc \in BOOLEAN}

\* LOAD_MEMO: a transfer or a burn preview in one chunk, at any time
ScratchPreview ==
    \E data \in {MemoTransfer, MemoBurn}, answer \in BOOLEAN :
        /\ host.memos < MaxScratchMemos
        /\ AfterMemo(main_turn(ctx, ws, "LoadMemo", 0, P2_CHUNK_LAST, data, answer),
                     Frame("LoadMemo", 0, P2_CHUNK_LAST, data),
                     [host EXCEPT !.memos = @ + 1], 0, answer)

\* SEND_BLINDERS: the blinder of the output
ScratchBlinders ==
    /\ shown # <<>>
    /\ ctx.verifier.blinders = <<>>
    /\ After(main_turn(ctx, ws, "SendBlinders", 0, P2_CHUNK_LAST, BlinderWire(1), FALSE),
             Frame("SendBlinders", 0, P2_CHUNK_LAST, BlinderWire(1)),
             host, shown, att)

\* SIGN_TX chunks 1..: the next piece of the body, up to one of the cuts; the
\* piece that reaches the end of the body is the final one
ScratchBody ==
    \E b \in (IF host.body = 0 THEN 1..Len(ScratchBodies) ELSE {host.body}) :
      \E cut \in ScratchCuts(b) :
        /\ host.starts > 0
        /\ host.chunks < MaxScratchChunks
        /\ cut > host.sent
        /\ cut <= Len(ScratchBodies[b])
        /\ cut - host.sent <= 255
        /\ After(main_turn(ctx, ws, "SignTx", ctx.chunk_count + 1,
                           IF cut = Len(ScratchBodies[b]) THEN P2_CHUNK_LAST ELSE P2_MORE_DATA,
                           Slice(ScratchBodies[b], host.sent, cut), FALSE),
                 Frame("SignTx", ctx.chunk_count + 1,
                       IF cut = Len(ScratchBodies[b]) THEN P2_CHUNK_LAST ELSE P2_MORE_DATA,
                       Slice(ScratchBodies[b], host.sent, cut)),
                 [host EXCEPT !.body = b, !.sent = cut, !.chunks = @ + 1,
                              !.fed = @ \o Slice(ScratchBodies[b], host.sent, cut)],
                 shown, att)

NextScratch == ScratchPreview \/ ScratchBlinders \/ ShortStart \/ ScratchBody

SpecScratch == InitScratch /\ [][NextScratch]_vars

\* the fill level the parser's state allows for the record it is reading
FillBound(p) ==
    IF p.partial_type.k = "None" THEN 65
    ELSE IF p.partial_type.k = "ExtraLength" THEN 9
    ELSE IF p.partial_type.k = "Commitment" THEN 32
    ELSE p.partial_type.n

\* C32: the scratch buffer has 256 bytes; no frame ends in a panic; the fill level
\* is at most 65 while an output header is read, 9 in an extra-data length and 32
\* in a commitment, and below the declared length while extra data is skipped;
\* nothing is ever written behind the first 65 bytes, so skipped extra data is
\* counted and not buffered
C32_ScratchInBounds ==
    /\ Len(ctx.parser.partial_buffer) = 256
    /\ resp.sw # "Panic"
    /\ ctx.parser.partial_len <= FillBound(ctx.parser)
    /\ Slice(ctx.parser.partial_buffer, 65, 256) = Rep(0, 191)

---------------------------------------------------------------------------
(* Previews with a record of an unknown tag between their records *)

\* the previews, record by record: a transfer, a burn, and a transfer that
\* declares its number of outputs
UnknownBases ==
    << <<RecTxType(TX_TRANSFER), RecFee(25), RecNonce(7), RecOutItem(0, 17, 5)>>,
       <<RecTxType(TX_BURN), RecFee(25), RecNonce(7), RecBurn(0, 5)>>,
       <<RecTxType(TX_TRANSFER), RecOutCount(1), RecOutItem(0, 17, 5), RecFee(25)>> >>

\* tags the parser does not know
UnknownTags == <<0, 5, 255>>

\* values of 0, 3 and 200 bytes; their bytes read like records of known tags
UnknownValues == << <<>>, <<TAG_TX_TYPE, 1, TX_BURN>>, Rep(TAG_OUT_COUNT, 200) >>

\* a record of a tag and a value: tag, length as a varint, value
RecUnknown(tag, val) ==
    <<tag>> \o (IF Len(val) < 128 THEN <<Len(val)>> ELSE <<128 + (Len(val) % 128), Len(val) \div 128>>)
        \o val

\* the well-formed records, numbered, and behind them two records that declare
\* five bytes more than they bring
UnknownRecs ==
    [k \in 1..11 |->
        IF k <= 9 THEN RecUnknown(UnknownTags[(k - 1) \div 3 + 1], UnknownValues[((k - 1) % 3) + 1])
        ELSE IF k = 10 THEN <<5, 5>>
        ELSE <<5, 8, TAG_FEE, 8, 1>>]
WellFormed == 1..9

RECURSIVE Concat(_)
Concat(recs) == IF recs = <<>> THEN <<>> ELSE Head(recs) \o Concat(Tail(recs))

\* preview b with record k put behind its first pos records
WithUnknown(b, pos, k) ==
    Concat(SubSeq(UnknownBases[b], 1, pos)) \o UnknownRecs[k]
        \o Concat(SubSeq(UnknownBases[b], pos + 1, Len(UnknownBases[b])))

\* LOAD_MEMO: a whole preview in one chunk with one record of an unknown tag
\* between two of its records, before the first or behind the last; a record cut
\* short comes last.  The host remembers the preview as body, the place as sent
\* and the record as index.
UnknownPreview ==
    \E b \in 1..Len(UnknownBases), k \in 1..11, answer \in BOOLEAN :
      \E pos \in 0..Len(UnknownBases[b]) :
        /\ host.memos < MaxMemoChunks
        /\ k \in WellFormed \/ pos = Len(UnknownBases[b])
        /\ AfterMemo(main_turn(ctx, ws, "LoadMemo", 0, P2_CHUNK_LAST, WithUnknown(b, pos, k), answer),
                     Frame("LoadMemo", 0, P2_CHUNK_LAST, WithUnknown(b, pos, k)),
                     [host EXCEPT !.memos = @ + 1, !.body = b, !.sent = pos, !.index = k],
                     0, answer)

\* LOAD_MEMO: the same previews as they are
PlainPreview ==
    \E b \in 1..Len(UnknownBases), answer \in BOOLEAN :
        /\ host.memos < MaxMemoChunks
        /\ AfterMemo(main_turn(ctx, ws, "LoadMemo", 0, P2_CHUNK_LAST, Concat(UnknownBases[b]), answer),
                     Frame("LoadMemo", 0, P2_CHUNK_LAST, Concat(UnknownBases[b])),
                     [host EXCEPT !.memos = @ + 1, !.body = b, !.sent = 0, !.index = 0],
                     0, answer)

NextUnknown == UnknownPreview \/ PlainPreview

SpecUnknown == Init /\ [][NextUnknown]_vars

\* the bytes that follow the length of the record the host put in
BehindLength ==
    Len(UnknownRecs[host'.index]) - 2
        + Len(Concat(SubSeq(UnknownBases[host'.body], host'.sent + 1,
                            Len(UnknownBases[host'.body]))))

\* C33: a preview that carries a well-formed record of an unknown tag between its
\* records, approved by the user, leaves the preview and the workspace that the
\* parse of the preview without that record gives; a record of an unknown tag
\* whose declared length is above the bytes that remain is answered TxParsingFail
\* and nothing is approved
C33_UnknownSkipped ==
    [][frame'.ins = "LoadMemo" /\ host'.body # 0 /\ host'.index # 0 /\ resp'.ui # "deny"
       => /\ host'.index \in WellFormed
             => /\ resp'.sw = "Ok" /\ resp'.ui = "approve"
                /\ ctx'.memo = <<parse_memo_tlv(Concat(UnknownBases[host'.body])).preview>>
                /\ ws' = parse_memo_tlv(Concat(UnknownBases[host'.body])).ws
          /\ host'.index \notin WellFormed
             => /\ UnknownRecs[host'.index][2] > BehindLength
                /\ resp'.sw = "TxParsingFail" /\ resp'.site = "mod.rs:146"
                /\ ctx'.memo = <<>> /\ ~ctx'.preview_approved]_vars

\* the transfer preview with 200 bytes under tag 255 before its output was
\* approved, and holds the one output
C33_Witness ==
    /\ frame.ins = "LoadMemo" /\ resp.sw = "Ok" /\ resp.ui = "approve"
    /\ host.body = 1 /\ host.sent = 3 /\ host.index = 9
    /\ frame.n = Len(Concat(UnknownBases[1])) + 203
    /\ ctx.preview_approved
    /\ Len(ws.outs) = 1 /\ ws.outs[1].amount = U64(5)

---------------------------------------------------------------------------
(* APDU headers: every INS with every P1 and P2, in both builds *)

InsSet == {0, 2, 3, 4, 5, 6, 7, 16, 17, 18, 240, 255}
P1Set == {0, 1, 2, 255}
P2Set == {0, 1, 128, 255}
MaxApdus == 2

\* the payloads: none, a path, a burn preview
ApduData == {<<>>, <<1, 128, 0, 0, 44>>, MemoBurn}

InitDecode ==
    /\ ctx = TxContext_new
    /\ ws = WsEmpty
    /\ frame = NoFrame
    /\ resp = NoResp
    /\ shown = <<>>
    /\ att = <<>>
    /\ host \in {[HostIdle EXCEPT !.debug_assertions = da] : da \in BOOLEAN}

\* what comm.next_command does with a header that try_from refuses: the status
\* word is replied and the loop of sample_main is not entered
Refused(d, f) ==
    /\ frame' = f
    /\ resp' = [NoResp EXCEPT !.sw = d.sw, !.site = "main.rs:134"]
    /\ host' = [host EXCEPT !.chunks = @ + 1]
    /\ UNCHANGED <<ctx, ws, shown, att>>

\* the turn of sample_main for the instruction d that try_from made of a header
Accepted(d, p1, p2, data, answer) ==
    IF d.ins = "LoadMemo"
    THEN AfterMemo(main_turn(ctx, ws, d.ins, p1, p2, data, answer),
                   Frame(d.ins, p1, p2, data), [host EXCEPT !.chunks = @ + 1], p1, answer)
    ELSE /\ answer
         /\ After(main_turn(ctx, ws, d.ins, p1, p2, data, FALSE),
                  Frame(d.ins, p1, p2, data), [host EXCEPT !.chunks = @ + 1], shown, att)

\* one APDU: the header is decoded, and the instruction, if it is one, handled.
\* The host counts its frames in chunks.
Apdu ==
    \E ins \in InsSet, p1 \in P1Set, p2 \in P2Set, data \in ApduData, answer \in BOOLEAN :
        /\ host.chunks < MaxApdus
        /\ ins = 5 => data = <<>>
        /\ IF Instruction_try_from(ins, p1, p2).ok
           THEN Accepted(Instruction_try_from(ins, p1, p2), p1, p2, data, answer)
           ELSE /\ answer
                /\ Refused(Instruction_try_from(ins, p1, p2),
                           [Frame("none", p1, p2, data) EXCEPT !.code = ins])

NextDecode == Apdu

SpecDecode == InitDecode /\ [][NextDecode]_vars

\* the allowed P1 and P2 of each recognised INS
AllowedP1P2(code, p1, p2) ==
    IF code \in {3, 4} THEN p1 = 0 /\ p2 = 0
    ELSE IF code = 5 THEN p1 \in {0, 1} /\ p2 = 0
    ELSE IF code = 6 THEN p2 \in {0, 128} /\ (p1 = 0 => p2 = 128)
    ELSE IF code = 16 THEN p2 \in {0, 128}
    ELSE TRUE

\* the last header was refused with status word sw and nothing else happened
RefusedWith(sw) ==
    /\ frame'.ins = "none" /\ resp'.sw = sw /\ resp'.site = "main.rs:134"
    /\ ctx' = ctx /\ ws' = ws

---------------------------------------------------------------------------
(* Instructions outside the session *)

NonSessionIns == {"GetVersion", "GetAppName", "GetPubkey"}

\* C35 as stated: an instruction outside the session leaves the initial context
\* (no preview, no approval, no blinders, no stream), and a SignTx chunk 0 that
\* follows it is answered MemoRequired
C35_AsStated ==
    [][/\ frame'.ins \in NonSessionIns => ctx' = TxContext_new /\ shown' = <<>> /\ att' = <<>>
       /\ (frame.ins \in NonSessionIns /\ frame'.ins = "SignTx" /\ frame'.p1 = 0)
          => resp'.sw = "MemoRequired" /\ resp'.out = <<>>]_vars

\* C35, amended: an instruction outside the session leaves the initial context
\* (no preview, no approval, no blinders, no stream), and a SignTx chunk 0 that
\* follows it is refused: with MemoRequired when it has a payload and with
\* TxParsingFail when it has none
C35_NonSessionResets ==
    [][/\ frame'.ins \in NonSessionIns => ctx' = TxContext_new /\ shown' = <<>> /\ att' = <<>>
       /\ (frame.ins \in NonSessionIns /\ frame'.ins = "SignTx" /\ frame'.p1 = 0)
          => /\ resp'.sw = IF frame'.n = 0 THEN "TxParsingFail" ELSE "MemoRequired"
             /\ resp'.out = <<>>
             /\ ctx' = TxContext_new]_vars

\* GetVersion came after a preview with an output had been parsed: the context is
\* the initial one
C35_Witness ==
    /\ frame.ins = "GetVersion" /\ resp.sw = "Ok"
    /\ ctx = TxContext_new /\ shown = <<>>
    /\ ws.outs # <<>>

---------------------------------------------------------------------------
(* Body chunks without chunk 0 *)

\* C36 as stated: a signature is replied only in a session in which SignTx chunk 0
\* was accepted since the last reset, and then under the path that chunk carried,
\* which is not the empty default
C36_SignedAfterStart ==
    [][Signed' => /\ att # <<>>
                  /\ host.starts > 0
                  /\ ctx.path # <<>>
                  /\ ctx.path = host.path]_vars

---------------------------------------------------------------------------
(* The stored preview and its approval *)

\* C37: after every frame a preview is stored exactly when preview_approved is
\* set; the two are raised only by the user's approval of a preview, and a
\* LoadMemo chunk 0 that ends without an approval, the end of a signing attempt,
\* a refused SendBlinders and an instruction outside the session leave neither
C37_PreviewIffApproved ==
    [][/\ (ctx'.memo # <<>>) <=> ctx'.preview_approved
       /\ (ctx'.preview_approved /\ ~ctx.preview_approved)
          => frame'.ins = "LoadMemo" /\ resp'.ui = "approve" /\ ctx'.memo # <<>>
       /\ ( \/ frame'.ins = "LoadMemo" /\ frame'.p1 = 0 /\ resp'.ui # "approve"
            \/ AttemptEnded'
            \/ frame'.ins = "SendBlinders" /\ resp'.sw # "Ok"
            \/ resp'.sw = "Deny"
            \/ frame'.ins \in NonSessionIns )
          => ctx'.memo = <<>> /\ ~ctx'.preview_approved]_vars

\* in the middle of a stream the approved preview is stored
C37_Witness ==
    /\ frame.ins = "SignTx" /\ frame.p1 >= 1 /\ frame.p2 = P2_MORE_DATA /\ resp.sw = "Ok"
    /\ ctx.preview_approved /\ ctx.memo # <<>>
    /\ shown # <<>> /\ shown[1].memo = ctx.memo[1]

---------------------------------------------------------------------------
(* The verification flags *)

\* the flags that are set
VerifiedSet == {i \in 1..Len(ctx.verifier.outputs_verified) : ctx.verifier.outputs_verified[i]}

\* C38 as stated: the outputs verified are the first ones, in their order; the
\* verified count is the number of flags that are set and is at most the number
\* of outputs of the stored preview; the transfers parsed are at most the
\* transfers the body declared
C38_VerifiedInOrder ==
    /\ VerifiedSet = 1..Cardinality(VerifiedSet)
    /\ verified_count(ctx.verifier) = Cardinality(VerifiedSet)
    /\ ctx.memo # <<>> => verified_count(ctx.verifier) <= Len(ws.outs)
    /\ ctx.parser.transfers_parsed <= ctx.parser.transfer_count

---------------------------------------------------------------------------
(* Progress of the stream parser on a chunk *)

\* chunks the host may send next: pieces of the bodies of 1, 35, 221 and 255
\* bytes, taken at their start and inside an output
SamplePiece(b, a, n) ==
    Slice(ScratchBodies[b], Min(a, Len(ScratchBodies[b]) - 1), Min(a + n, Len(ScratchBodies[b])))
SampleChunks ==
    {SamplePiece(b, a, n) : b \in 1..Len(ScratchBodies), a \in {0, 100, 120},
                            n \in {1, 35, 221, 255}}

\* the transfer loop of parse_and_verify_stream would call
\* extract_commitment_from_transfer in this state
InTransferLoop ==
    /\ ctx.memo # <<>> /\ ctx.memo[1].tx_type = TX_TRANSFER
    /\ ctx.parser.bytes_seen >= 35 /\ ctx.parser.in_transfers
    /\ ctx.parser.transfers_parsed < ctx.parser.transfer_count

\* the result r of one call on a chunk d is an error, or consumed at least one
\* byte and at most the chunk
Progress(r, d) == r.sw # "Panic" /\ (r.ok => r.off >= 1 /\ r.off <= Len(d))

\* C39 as stated: in every state the session reaches, whatever chunk comes next,
\* one call of extract_commitment_from_transfer returns an error or consumes at
\* least one byte and at most the chunk, and the processing of the whole chunk
\* ends with a status
C39_ChunkTerminates ==
    \A d \in SampleChunks :
        /\ InTransferLoop => Progress(extract_commitment_from_transfer(ctx.parser, d), d)
        /\ ~parse_and_verify_stream(ctx.parser, ctx.verifier, ctx.memo, ws, d).panic

---------------------------------------------------------------------------
(* Previews that reach the size limit *)

MaxLarge == 16

\* payloads: a full frame, and what fills the buffer exactly after 14 full frames
LargeData == {Rep(0, 255), Rep(0, 14)}

\* the chunk index handler_load_memo expects
ExpectedChunk ==
    IF ctx.memo_chunk_count = 0 THEN 0 ELSE ((ctx.memo_chunk_count - 1) % 255) + 1

\* LOAD_MEMO with more to come: the expected index, the one after it, or 0
LargeChunk ==
    \E chunk \in {ExpectedChunk, ExpectedChunk + 1, 0}, data \in LargeData :
        /\ host.memos < MaxLarge
        /\ AfterMemo(main_turn(ctx, ws, "LoadMemo", chunk, P2_MORE_DATA, data, TRUE),
                     Frame("LoadMemo", chunk, P2_MORE_DATA, data),
                     [host EXCEPT !.memos = @ + 1], chunk, TRUE)

NextLarge == BurnPreview \/ LargeChunk

SpecLarge == Init /\ [][NextLarge]_vars

\* a LoadMemo frame was refused for its index or for its size
ChunkRejected ==
    /\ frame'.ins = "LoadMemo"
    /\ \/ resp'.sw = "MemoTooLarge"
       \/ resp'.sw = "TxParsingFail" /\ resp'.site = "mod.rs:130"

\* C40 as stated: the preview buffer never holds more than MAX_MEMO_SIZE bytes; a
\* chunk with the expected index that would pass the limit is refused with
\* MemoTooLarge; a chunk refused for its index or its size leaves the buffer,
\* the expected next index and the approval as they were
C40_RejectedChunkLeavesAll ==
    [][/\ Len(ctx'.memo_buffer) <= MAX_MEMO_SIZE
       /\ (frame'.ins = "LoadMemo" /\ frame'.p1 = ExpectedChunk /\ frame'.p1 # 0
           /\ Len(ctx.memo_buffer) + frame'.n > MAX_MEMO_SIZE)
          => resp'.sw = "MemoTooLarge"
       /\ ChunkRejected
          => /\ ctx'.memo_buffer = ctx.memo_buffer
             /\ ctx'.memo_chunk_count = ctx.memo_chunk_count
             /\ ctx'.preview_approved = ctx.preview_approved
             /\ ctx'.memo = ctx.memo]_vars

=========================================================================
